---- MODULE Spec2Model ----
(***************************************************************************)
(* Model of machadothi/ai_trading_bot: the daily trade limiter             *)
(* (src/src/trade_limiter.rs), the fallback target calculator              *)
(* (src/src/ai_advisor.rs) and the two polling loops (src/src/main.rs).    *)
(*                                                                         *)
(* Conventions.                                                            *)
(*  - A calendar date (the "%Y-%m-%d" string of Utc::now()) is a day       *)
(*    number; `now` is the UTC day of the wall clock.  One call of a       *)
(*    limiter method reads the clock at one instant; the clock may advance *)
(*    between any two calls and at every await point of the loops.         *)
(*  - A Decimal is an integer count of 1/SCALE units, so that the          *)
(*    percentages and the division by three of the calculator are exact.   *)
(*  - The state file holds text: a sequence of <<key, value>> pairs in the *)
(*    order serde_json emits the struct's fields; decimals are written as  *)
(*    sign and digits.                                                     *)
(***************************************************************************)
EXTENDS Integers, Sequences, FiniteSets, TLC

\* ------------------------------------------------------------------ bounds
MaxDay == 2
MaxTrades == 2
TornLen == 0
MaxFaults == 1
MaxSegments == 2

\* ------------------------------------------------------- program constants
max_trades_per_day == 2
SCALE == 600

VARIABLES
    now,            \* UTC day of the wall clock
    state_file,     \* the trade_state.json record on disk
    current_state,  \* TradeLimiter.current_state
    pc,             \* position of the process
    mode,           \* "api" (limiter driven directly), "simulation", "live"
    call,           \* the limiter method that returned last (api mode): name, day, result
    ledger,         \* the trades actually made on one day, counted apart from the limiter
    saved,          \* the save_state attempts of the last step
    loaded,         \* what the last construction found in the record
    faults,         \* number of failed writes of the record so far
    lp              \* the polling loop's locals and per-cycle observations

vars == <<now, state_file, current_state, pc, mode, call, ledger, saved, loaded, faults, lp>>

Days == 1..MaxDay
Sides == {"BUY", "SELL"}
TradePrices == {100 * SCALE}
TradeQuantities == {SCALE}
PnlAmounts == {-7, 5}
WriteOutcomes == {"ok", "denied", "torn"}
Symbol == "BTCUSDT"

\* ------------------------------------------------------------ trade limiter

new_for_today(today) ==
    [date |-> today,
     trades_today |-> <<>>,
     first_trade_executed |-> FALSE,
     second_trade_executed |-> FALSE,
     daily_pnl |-> 0]

\* The value of current_state while no TradeLimiter exists.
NoLimiter == new_for_today(0)

next_trading_day(today) == today + 1

Allowed(first, remaining) ==
    [tag |-> "Allowed", is_first_trade |-> first, trades_remaining |-> remaining]

DailyLimitReached(executed, next) ==
    [tag |-> "DailyLimitReached", trades_executed |-> executed, next_trading_day |-> next]

\* can_trade with the cap compared by > instead of >=.
can_trade_off_by_one(st, today) ==
    IF st.date # today
    THEN Allowed(TRUE, 2)
    ELSE LET trades_count == Len(st.trades_today) IN
         IF trades_count > max_trades_per_day
         THEN DailyLimitReached(trades_count, next_trading_day(today))
         ELSE IF trades_count = 0
              THEN Allowed(TRUE, 2)
              ELSE Allowed(FALSE, 1)

\* can_trade reporting the cap instead of the number of recorded trades.
can_trade_capped_count(st, today) ==
    IF st.date # today
    THEN Allowed(TRUE, 2)
    ELSE LET trades_count == Len(st.trades_today) IN
         IF trades_count >= max_trades_per_day
         THEN DailyLimitReached(max_trades_per_day, next_trading_day(today))
         ELSE IF trades_count = 0
              THEN Allowed(TRUE, 2)
              ELSE Allowed(FALSE, 1)

can_trade(st, today) ==
    IF st.date # today
    THEN Allowed(TRUE, 2)
    ELSE LET trades_count == Len(st.trades_today) IN
         IF trades_count >= max_trades_per_day
         THEN DailyLimitReached(trades_count, next_trading_day(today))
         ELSE IF trades_count = 0
              THEN Allowed(TRUE, 2)
              ELSE Allowed(FALSE, 1)

\* is_allowed answering true for either permission.
is_allowed_any(p) == p.tag \in {"Allowed", "DailyLimitReached"}

is_allowed(p) == p.tag = "Allowed"

saturating_sub(a, b) == IF a >= b THEN a - b ELSE 0

NoTrade == <<>>

\* get_status without the date comparison.
get_status_no_date_check(st, today) ==
    LET trades_count == Len(st.trades_today) IN
    [date |-> st.date,
     trades_executed |-> trades_count,
     trades_remaining |-> saturating_sub(max_trades_per_day, trades_count),
     first_trade |-> IF trades_count >= 1 THEN <<st.trades_today[1]>> ELSE NoTrade,
     second_trade |-> IF trades_count >= 2 THEN <<st.trades_today[2]>> ELSE NoTrade,
     daily_pnl |-> st.daily_pnl,
     can_trade |-> trades_count < max_trades_per_day]

get_status(st, today) ==
    IF st.date # today
    THEN [date |-> today,
          trades_executed |-> 0,
          trades_remaining |-> 2,
          first_trade |-> NoTrade,
          second_trade |-> NoTrade,
          daily_pnl |-> 0,
          can_trade |-> TRUE]
    ELSE LET trades_count == Len(st.trades_today) IN
         [date |-> st.date,
          trades_executed |-> trades_count,
          trades_remaining |-> saturating_sub(max_trades_per_day, trades_count),
          first_trade |-> IF trades_count >= 1 THEN <<st.trades_today[1]>> ELSE NoTrade,
          second_trade |-> IF trades_count >= 2 THEN <<st.trades_today[2]>> ELSE NoTrade,
          daily_pnl |-> st.daily_pnl,
          can_trade |-> trades_count < max_trades_per_day]

\* record_trade without the new-day reset.
record_trade_no_reset(st, today, symbol, side, price, quantity) ==
    LET is_first == Len(st.trades_today) = 0
        record == [timestamp |-> today,
                   symbol |-> symbol,
                   side |-> side,
                   price |-> price,
                   quantity |-> quantity,
                   is_first_trade |-> is_first]
    IN [st EXCEPT
          !.trades_today = Append(st.trades_today, record),
          !.first_trade_executed = IF is_first THEN TRUE ELSE @,
          !.second_trade_executed = IF is_first THEN @ ELSE TRUE]

\* record_trade that refuses a trade beyond the daily cap.
record_trade_capped(st, today, symbol, side, price, quantity) ==
    IF st.date = today /\ Len(st.trades_today) >= max_trades_per_day
    THEN st
    ELSE record_trade_no_reset(IF st.date # today THEN new_for_today(today) ELSE st,
                               today, symbol, side, price, quantity)

\* record_trade deciding is_first before the new-day reset.
record_trade_first_before_reset(st, today, symbol, side, price, quantity) ==
    LET base == IF st.date # today THEN new_for_today(today) ELSE st
        is_first == Len(st.trades_today) = 0
        record == [timestamp |-> today,
                   symbol |-> symbol,
                   side |-> side,
                   price |-> price,
                   quantity |-> quantity,
                   is_first_trade |-> is_first]
    IN [base EXCEPT
          !.trades_today = Append(base.trades_today, record),
          !.first_trade_executed = IF is_first THEN TRUE ELSE @,
          !.second_trade_executed = IF is_first THEN @ ELSE TRUE]

\* The in-memory effect of record_trade (before save_state).
record_trade(st, today, symbol, side, price, quantity) ==
    LET base == IF st.date # today THEN new_for_today(today) ELSE st
        is_first == Len(base.trades_today) = 0
        record == [timestamp |-> today,
                   symbol |-> symbol,
                   side |-> side,
                   price |-> price,
                   quantity |-> quantity,
                   is_first_trade |-> is_first]
    IN [base EXCEPT
          !.trades_today = Append(base.trades_today, record),
          !.first_trade_executed = IF is_first THEN TRUE ELSE @,
          !.second_trade_executed = IF is_first THEN @ ELSE TRUE]

\* update_pnl that adds the amount to the day's P&L.
update_pnl_accumulating(st, pnl) == [st EXCEPT !.daily_pnl = @ + pnl]

\* The in-memory effect of update_pnl (before save_state).
update_pnl(st, pnl) == [st EXCEPT !.daily_pnl = pnl]

\* ------------------------------------------------------------ serialization

DecimalToText(d) == [neg |-> d < 0, digits |-> IF d < 0 THEN 0 - d ELSE d]

\* A decimal parser that drops the sign.
TextToDecimal_unsigned(t) == t.digits

TextToDecimal(t) == IF t.neg THEN 0 - t.digits ELSE t.digits

SerializeTrade(t) ==
    << <<"timestamp", t.timestamp>>,
       <<"symbol", t.symbol>>,
       <<"side", t.side>>,
       <<"price", DecimalToText(t.price)>>,
       <<"quantity", DecimalToText(t.quantity)>>,
       <<"is_first_trade", t.is_first_trade>> >>

Field(text, key) == text[CHOOSE i \in 1..Len(text) : text[i][1] = key][2]

DeserializeTrade(text) ==
    [timestamp |-> Field(text, "timestamp"),
     symbol |-> Field(text, "symbol"),
     side |-> Field(text, "side"),
     price |-> TextToDecimal(Field(text, "price")),
     quantity |-> TextToDecimal(Field(text, "quantity")),
     is_first_trade |-> Field(text, "is_first_trade")]

\* serde_json::to_string_pretty(&DailyTradingState)
Serialize(st) ==
    << <<"date", st.date>>,
       <<"trades_today", [i \in 1..Len(st.trades_today) |-> SerializeTrade(st.trades_today[i])]>>,
       <<"first_trade_executed", st.first_trade_executed>>,
       <<"second_trade_executed", st.second_trade_executed>>,
       <<"daily_pnl", DecimalToText(st.daily_pnl)>> >>

StateKeys == {"date", "trades_today", "first_trade_executed", "second_trade_executed", "daily_pnl"}

\* serde_json::from_str::<DailyTradingState> succeeds iff every field is there.
IsValidText(text) == \A k \in StateKeys : \E i \in 1..Len(text) : text[i][1] = k

Deserialize(text) ==
    LET trades == Field(text, "trades_today") IN
    [date |-> Field(text, "date"),
     trades_today |-> [i \in 1..Len(trades) |-> DeserializeTrade(trades[i])],
     first_trade_executed |-> Field(text, "first_trade_executed"),
     second_trade_executed |-> Field(text, "second_trade_executed"),
     daily_pnl |-> TextToDecimal(Field(text, "daily_pnl"))]

MissingFile == [kind |-> "missing", text |-> <<>>]
UnreadableFile == [kind |-> "unreadable", text |-> <<>>]
TextFile(text) == [kind |-> "text", text |-> text]

\* fs::write(&self.state_file, json): the record after the attempt.
WriteFile(file, text, outcome) ==
    CASE outcome = "ok" -> TextFile(text)
      [] outcome = "torn" -> TextFile(SubSeq(text, 1, TornLen))
      [] OTHER -> file

\* save_state: the record after serializing st and attempting the write.
save_state(file, st, outcome) == WriteFile(file, Serialize(st), outcome)

SaveAttempt(st, outcome) == [text |-> Serialize(st), outcome |-> outcome]

\* The write outcomes still open to a step, and the fault count after one.
Outcomes == IF faults < MaxFaults THEN WriteOutcomes ELSE {"ok"}

FaultsAfter(outcome) == IF outcome = "ok" THEN faults ELSE faults + 1

\* load_state without the comparison of the persisted date with today.
LoadCase_any_date(file, today) ==
    IF file.kind = "missing" THEN "missing"
    ELSE IF file.kind = "unreadable" THEN "unreadable"
    ELSE IF ~IsValidText(file.text) THEN "invalid"
    ELSE "resumed"

\* What load_state finds in the record.
LoadCase(file, today) ==
    IF file.kind = "missing" THEN "missing"
    ELSE IF file.kind = "unreadable" THEN "unreadable"
    ELSE IF ~IsValidText(file.text) THEN "invalid"
    ELSE IF Deserialize(file.text).date = today THEN "resumed"
    ELSE "stale"

\* load_state: the state the limiter holds after it.
load_state(file, today) ==
    IF LoadCase(file, today) = "resumed"
    THEN Deserialize(file.text)
    ELSE new_for_today(today)

\* TradeLimiter::new
LimiterNew(outcome) ==
    LET found == LoadCase(state_file, now)
        st == load_state(state_file, now)
    IN /\ current_state' = st
       /\ loaded' = found
       /\ IF found = "resumed"
          THEN /\ state_file' = state_file
               /\ saved' = <<>>
               /\ faults' = faults
          ELSE /\ state_file' = save_state(state_file, st, outcome)
               /\ saved' = <<SaveAttempt(st, outcome)>>
               /\ faults' = FaultsAfter(outcome)

\* ------------------------------------------------------- decimal arithmetic

D(n) == n * SCALE

\* n hundredths, e.g. Cent(97) is dec!(0.97).
Cent(n) == (n * SCALE) \div 100

\* a * b and a / b on 1/SCALE units, split so that no intermediate product
\* leaves the 32-bit range of the model checker's integers.
DMul(a, b) ==
    LET qa == a \div SCALE
        ra == a % SCALE
        qb == b \div SCALE
        rb == b % SCALE
    IN qa * qb * SCALE + qa * rb + ra * qb + (ra * rb) \div SCALE

DDiv(a, b) == (a \div b) * SCALE + ((a % b) * SCALE) \div b

DMin(a, b) == IF a <= b THEN a ELSE b

DMax(a, b) == IF a >= b THEN a ELSE b

Abs(n) == IF n < 0 THEN 0 - n ELSE n

\* Option<T>: None is the empty sequence, Some(x) is <<x>>.
None == <<>>

Some(x) == <<x>>

unwrap_or(opt, default) == IF opt = None THEN default ELSE opt[1]

\* --------------------------------------------------- fallback calculator

determine_score(ctx) ==
    LET rsi_score ==
            IF ctx.rsi = None THEN 0
            ELSE LET rsi == ctx.rsi[1] IN
                 IF rsi < D(30) THEN 2
                 ELSE IF rsi < D(40) THEN 1
                 ELSE IF rsi > D(70) THEN 0 - 2
                 ELSE IF rsi > D(60) THEN 0 - 1
                 ELSE 0
        sma_score ==
            IF ctx.sma_short = None \/ ctx.sma_long = None THEN 0
            ELSE LET short == ctx.sma_short[1]
                     long == ctx.sma_long[1]
                 IN IF short > long
                    THEN 1 + (IF short > DMul(long, Cent(102)) THEN 1 ELSE 0)
                    ELSE 0 - 1 - (IF short < DMul(long, Cent(98)) THEN 1 ELSE 0)
        momentum_score ==
            IF ctx.price_change_24h_percent > D(5) THEN 1
            ELSE IF ctx.price_change_24h_percent < D(0 - 5) THEN 0 - 1
            ELSE 0
    IN rsi_score + sma_score + momentum_score

determine_factors(ctx) ==
    (IF ctx.rsi = None THEN 0 ELSE 1)
    + (IF ctx.sma_short = None \/ ctx.sma_long = None THEN 0 ELSE 1)
    + 1

\* determine_recommendation without the floor of 30.
determine_recommendation_no_floor(ctx) ==
    LET score == determine_score(ctx)
        max_score == determine_factors(ctx) * 2
        confidence ==
            IF max_score > 0
            THEN DMin(DMul(DDiv(D(Abs(score)), D(max_score)), D(100)), D(90))
            ELSE D(50)
        recommendation ==
            IF score >= 3 THEN "StrongBuy"
            ELSE IF score >= 1 THEN "Buy"
            ELSE IF score <= 0 - 3 THEN "StrongSell"
            ELSE IF score <= 0 - 1 THEN "Sell"
            ELSE "Hold"
    IN [recommendation |-> recommendation, confidence |-> confidence]

determine_recommendation(ctx) ==
    LET score == determine_score(ctx)
        max_score == determine_factors(ctx) * 2
        confidence ==
            IF max_score > 0
            THEN DMin(DMul(DDiv(D(Abs(score)), D(max_score)), D(100)), D(90))
            ELSE D(50)
        recommendation ==
            IF score >= 3 THEN "StrongBuy"
            ELSE IF score >= 1 THEN "Buy"
            ELSE IF score <= 0 - 3 THEN "StrongSell"
            ELSE IF score <= 0 - 1 THEN "Sell"
            ELSE "Hold"
    IN [recommendation |-> recommendation, confidence |-> DMax(confidence, D(30))]

generate_reasoning(ctx, rec) ==
    LET rsi_reason ==
            IF ctx.rsi = None THEN <<>>
            ELSE IF ctx.rsi[1] < D(30) THEN <<"RSI indicates oversold conditions">>
            ELSE IF ctx.rsi[1] > D(70) THEN <<"RSI indicates overbought conditions">>
            ELSE <<>>
        sma_reason ==
            IF ctx.sma_short = None \/ ctx.sma_long = None THEN <<>>
            ELSE IF ctx.sma_short[1] > ctx.sma_long[1]
                 THEN <<"SMA shows bullish trend">>
                 ELSE <<"SMA shows bearish trend">>
        momentum_reason ==
            IF ctx.price_change_24h_percent > D(5)
            THEN <<"Strong upward momentum in 24h">>
            ELSE IF ctx.price_change_24h_percent < D(0 - 5)
                 THEN <<"Strong downward momentum in 24h">>
                 ELSE <<>>
        reasons == rsi_reason \o sma_reason \o momentum_reason
    IN IF reasons = <<>>
       THEN <<rec, "recommendation based on mixed signals">>
       ELSE reasons

\* The calculator taking its pivot levels from the 24h window only.
FallbackTargets_24h_window(ctx) ==
    LET current == ctx.current_price
        high == ctx.high_24h
        low == ctx.low_24h
        pivot == DDiv(high + low + current, D(3))
        range == high - low
        resistance == DMul(D(2), pivot) - low
        strong_resistance == pivot + range
        support == DMul(D(2), pivot) - high
        strong_support == pivot - range
        range_24h == ctx.high_24h - ctx.low_24h
        volatility_percent ==
            IF current > 0 THEN DMul(DDiv(range_24h, current), D(100)) ELSE D(3)
        stop_loss_percent == DMax(DMin(DDiv(volatility_percent, D(2)), D(5)), D(2))
        stop_loss == DMul(current, D(1) - DDiv(stop_loss_percent, D(100)))
        take_profit_percent == DMul(stop_loss_percent, D(2))
        take_profit == DMul(current, D(1) + DDiv(take_profit_percent, D(100)))
        rc == determine_recommendation(ctx)
    IN [stop_loss_price |-> stop_loss,
        take_profit_price |-> take_profit,
        buy_target_price |-> Some(DMax(support, DMul(current, Cent(97)))),
        sell_target_price |-> Some(DMin(resistance, DMul(current, Cent(105)))),
        confidence |-> rc.confidence,
        reasoning |-> generate_reasoning(ctx, rc.recommendation),
        recommendation |-> rc.recommendation,
        support |-> Some(support),
        strong_support |-> Some(strong_support),
        resistance |-> Some(resistance),
        strong_resistance |-> Some(strong_resistance),
        pivot_point |-> Some(pivot)]

\* The calculator applying the bounds of the stop-loss percentage in the
\* other order (max 5, then min 2).
FallbackTargets_clamp_swapped(ctx) ==
    LET current == ctx.current_price
        high == unwrap_or(ctx.high_48h, ctx.high_24h)
        low == unwrap_or(ctx.low_48h, ctx.low_24h)
        pivot == DDiv(high + low + current, D(3))
        range == high - low
        resistance == DMul(D(2), pivot) - low
        strong_resistance == pivot + range
        support == DMul(D(2), pivot) - high
        strong_support == pivot - range
        range_24h == ctx.high_24h - ctx.low_24h
        volatility_percent ==
            IF current > 0 THEN DMul(DDiv(range_24h, current), D(100)) ELSE D(3)
        stop_loss_percent == DMin(DMax(DDiv(volatility_percent, D(2)), D(5)), D(2))
        stop_loss == DMul(current, D(1) - DDiv(stop_loss_percent, D(100)))
        take_profit_percent == DMul(stop_loss_percent, D(2))
        take_profit == DMul(current, D(1) + DDiv(take_profit_percent, D(100)))
        rc == determine_recommendation(ctx)
    IN [stop_loss_price |-> stop_loss,
        take_profit_price |-> take_profit,
        buy_target_price |-> Some(DMax(support, DMul(current, Cent(97)))),
        sell_target_price |-> Some(DMin(resistance, DMul(current, Cent(105)))),
        confidence |-> rc.confidence,
        reasoning |-> generate_reasoning(ctx, rc.recommendation),
        recommendation |-> rc.recommendation,
        support |-> Some(support),
        strong_support |-> Some(strong_support),
        resistance |-> Some(resistance),
        strong_resistance |-> Some(strong_resistance),
        pivot_point |-> Some(pivot)]

\* The calculator taking the lower of support and 97% for the buy target.
FallbackTargets_band_swapped(ctx) ==
    LET current == ctx.current_price
        high == unwrap_or(ctx.high_48h, ctx.high_24h)
        low == unwrap_or(ctx.low_48h, ctx.low_24h)
        pivot == DDiv(high + low + current, D(3))
        range == high - low
        resistance == DMul(D(2), pivot) - low
        strong_resistance == pivot + range
        support == DMul(D(2), pivot) - high
        strong_support == pivot - range
        range_24h == ctx.high_24h - ctx.low_24h
        volatility_percent ==
            IF current > 0 THEN DMul(DDiv(range_24h, current), D(100)) ELSE D(3)
        stop_loss_percent == DMax(DMin(DDiv(volatility_percent, D(2)), D(5)), D(2))
        stop_loss == DMul(current, D(1) - DDiv(stop_loss_percent, D(100)))
        take_profit_percent == DMul(stop_loss_percent, D(2))
        take_profit == DMul(current, D(1) + DDiv(take_profit_percent, D(100)))
        rc == determine_recommendation(ctx)
    IN [stop_loss_price |-> stop_loss,
        take_profit_price |-> take_profit,
        buy_target_price |-> Some(DMin(support, DMul(current, Cent(97)))),
        sell_target_price |-> Some(DMin(resistance, DMul(current, Cent(105)))),
        confidence |-> rc.confidence,
        reasoning |-> generate_reasoning(ctx, rc.recommendation),
        recommendation |-> rc.recommendation,
        support |-> Some(support),
        strong_support |-> Some(strong_support),
        resistance |-> Some(resistance),
        strong_resistance |-> Some(strong_resistance),
        pivot_point |-> Some(pivot)]

\* FallbackTargetCalculator::calculate_targets
FallbackTargets(ctx) ==
    LET current == ctx.current_price
        high == unwrap_or(ctx.high_48h, ctx.high_24h)
        low == unwrap_or(ctx.low_48h, ctx.low_24h)
        pivot == DDiv(high + low + current, D(3))
        range == high - low
        resistance == DMul(D(2), pivot) - low
        strong_resistance == pivot + range
        support == DMul(D(2), pivot) - high
        strong_support == pivot - range
        range_24h == ctx.high_24h - ctx.low_24h
        volatility_percent ==
            IF current > 0 THEN DMul(DDiv(range_24h, current), D(100)) ELSE D(3)
        stop_loss_percent == DMax(DMin(DDiv(volatility_percent, D(2)), D(5)), D(2))
        stop_loss == DMul(current, D(1) - DDiv(stop_loss_percent, D(100)))
        take_profit_percent == DMul(stop_loss_percent, D(2))
        take_profit == DMul(current, D(1) + DDiv(take_profit_percent, D(100)))
        rc == determine_recommendation(ctx)
    IN [stop_loss_price |-> stop_loss,
        take_profit_price |-> take_profit,
        buy_target_price |-> Some(DMax(support, DMul(current, Cent(97)))),
        sell_target_price |-> Some(DMin(resistance, DMul(current, Cent(105)))),
        confidence |-> rc.confidence,
        reasoning |-> generate_reasoning(ctx, rc.recommendation),
        recommendation |-> rc.recommendation,
        support |-> Some(support),
        strong_support |-> Some(strong_support),
        resistance |-> Some(resistance),
        strong_resistance |-> Some(strong_resistance),
        pivot_point |-> Some(pivot)]

\* --------------------------------------------------------- response parser

\* A text is a sequence of characters.  An ASCII character is the string of
\* that character; a character outside ASCII is named by its code point.
Chars(s) == [i \in 1 .. Len(s) |-> SubSeq(s, i, i)]

AsciiLower == Chars("abcdefghijklmnopqrstuvwxyz")

AsciiUpper == Chars("ABCDEFGHIJKLMNOPQRSTUVWXYZ")

Digits == Chars("0123456789")

\* U+0149 (n preceded by apostrophe), U+02BC (modifier apostrophe), U+00E9
\* and U+00C9 (e and E with acute), U+20AC (euro sign).
NonAscii == {"U+0149", "U+02BC", "U+00E9", "U+00C9", "U+20AC"}

\* char::len_utf8.
len_utf8(c) ==
    IF c = "U+20AC" THEN 3
    ELSE IF c \in NonAscii THEN 2
    ELSE 1

\* char::to_uppercase: one character may become two.
AsciiToUpper ==
    [c \in {AsciiLower[i] : i \in 1 .. 26} |->
        AsciiUpper[CHOOSE i \in 1 .. 26 : AsciiLower[i] = c]]

char_to_uppercase(c) ==
    IF c \in DOMAIN AsciiToUpper THEN <<AsciiToUpper[c]>>
    ELSE IF c = "U+0149" THEN <<"U+02BC", "N">>
    ELSE IF c = "U+00E9" THEN <<"U+00C9">>
    ELSE <<c>>

RECURSIVE to_uppercase(_)
to_uppercase(text) ==
    IF text = <<>> THEN <<>>
    ELSE IF Len(text) = 1 THEN char_to_uppercase(text[1])
    ELSE LET half == Len(text) \div 2
         IN to_uppercase(SubSeq(text, 1, half)) \o to_uppercase(SubSeq(text, half + 1, Len(text)))

\* str::len: the length in bytes.
RECURSIVE str_len(_)
str_len(text) ==
    IF text = <<>> THEN 0
    ELSE IF Len(text) = 1 THEN len_utf8(text[1])
    ELSE LET half == Len(text) \div 2
         IN str_len(SubSeq(text, 1, half)) + str_len(SubSeq(text, half + 1, Len(text)))

\* str::contains.
occurs_at(text, pattern, i) ==
    \A k \in 1 .. Len(pattern) : text[i + k - 1] = pattern[k]

contains(text, pattern) ==
    \E i \in 1 .. (Len(text) - Len(pattern) + 1) : occurs_at(text, pattern, i)

\* str::find: the byte offset of the first occurrence.
find(text, pattern) ==
    LET occurrences == {i \in 1 .. (Len(text) - Len(pattern) + 1) :
                            occurs_at(text, pattern, i)}
    IN IF occurrences = {} THEN None
       ELSE LET first == CHOOSE i \in occurrences : \A j \in occurrences : i <= j
            IN Some(str_len(SubSeq(text, 1, first - 1)))

\* &text[offset..]: the rest of the text from a byte offset; the slice
\* panics (None here) when the offset is past the end or inside a character.
\* The number of characters that make up the first `offset` bytes, found by
\* bisection; none when the offset is past the end or inside a character.
RECURSIVE chars_before(_, _, _, _)
chars_before(text, offset, lo, hi) ==
    IF lo > hi THEN None
    ELSE LET mid == (lo + hi) \div 2
             bytes == str_len(SubSeq(text, 1, mid))
         IN IF bytes = offset THEN Some(mid)
            ELSE IF bytes < offset THEN chars_before(text, offset, mid + 1, hi)
            ELSE chars_before(text, offset, lo, mid - 1)

str_from(text, offset) ==
    LET boundary == chars_before(text, offset, 0, Len(text))
    IN IF boundary = None THEN None
       ELSE Some(SubSeq(text, boundary[1] + 1, Len(text)))

is_ascii_digit(c) == \E i \in 1 .. 10 : Digits[i] = c

digit_value(c) == (CHOOSE i \in 1 .. 10 : Digits[i] = c) - 1

\* chars().skip_while(|c| c is not wanted).
skip_while_not(text, wanted) ==
    LET hits == {i \in 1 .. Len(text) : text[i] \in wanted}
    IN IF hits = {} THEN <<>>
       ELSE SubSeq(text, CHOOSE i \in hits : \A j \in hits : i <= j, Len(text))

\* chars().take_while(|c| c is wanted).
take_while(text, wanted) ==
    LET stops == {i \in 1 .. Len(text) : text[i] \notin wanted}
    IN IF stops = {} THEN text
       ELSE SubSeq(text, 1, (CHOOSE i \in stops : \A j \in stops : i <= j) - 1)

filter_out(text, c) == SelectSeq(text, LAMBDA x : x # c)

DigitChars == {Digits[i] : i \in 1 .. 10}

RECURSIVE digits_value(_)
digits_value(digits) ==
    IF digits = <<>> THEN 0
    ELSE 10 * digits_value(SubSeq(digits, 1, Len(digits) - 1))
         + digit_value(digits[Len(digits)])

RECURSIVE pow10(_)
pow10(n) == IF n = 0 THEN 1 ELSE 10 * pow10(n - 1)

\* Decimal::from_str on a string of digits and points: an error (None)
\* without a digit or with more than one point.
parse_decimal(number_str) ==
    LET points == {i \in 1 .. Len(number_str) : number_str[i] = "."}
        digits == filter_out(number_str, ".")
    IN IF digits = <<>> \/ Cardinality(points) > 1 THEN None
       ELSE IF points = {} THEN Some(D(digits_value(digits)))
       ELSE LET p == CHOOSE i \in points : TRUE
                whole == SubSeq(number_str, 1, p - 1)
                fraction == SubSeq(number_str, p + 1, Len(number_str))
            IN Some(D(digits_value(whole))
                    + (digits_value(fraction) * SCALE) \div pow10(Len(fraction)))

\* What an extraction came to: a value or none, or the panic of its slice.
Extracted(value) == [panicked |-> FALSE, value |-> value]

Panicked == [panicked |-> TRUE, value |-> None]

\* extract_price (ai_advisor.rs 331-351): the label is found in the
\* upper-cased text and the text itself is sliced at that byte offset.
extract_price(text, label) ==
    LET text_upper == to_uppercase(text)
        label_upper == to_uppercase(label)
        pos == find(text_upper, label_upper)
    IN IF pos = None THEN Extracted(None)
       ELSE LET after_label == str_from(text, pos[1] + str_len(label))
            IN IF after_label = None THEN Panicked
               ELSE LET number_str ==
                            filter_out(take_while(skip_while_not(after_label[1], DigitChars \cup {"."}),
                                                  DigitChars \cup {".", ","}), ",")
                    IN IF number_str # <<>> THEN Extracted(parse_decimal(number_str))
                       ELSE Extracted(None)

\* extract_percentage (ai_advisor.rs 353-370).
extract_percentage(text, label) ==
    LET text_upper == to_uppercase(text)
        label_upper == to_uppercase(label)
        pos == find(text_upper, label_upper)
    IN IF pos = None THEN Extracted(None)
       ELSE LET after_label == str_from(text, pos[1] + str_len(label))
            IN IF after_label = None THEN Panicked
               ELSE LET number_str ==
                            take_while(skip_while_not(after_label[1], DigitChars),
                                       DigitChars \cup {"."})
                    IN IF number_str # <<>> THEN Extracted(parse_decimal(number_str))
                       ELSE Extracted(None)

Whitespace == {" ", "\t", "\r", "\n"}

\* str::trim.
trim(text) ==
    LET inked == {i \in 1 .. Len(text) : text[i] \notin Whitespace}
    IN IF inked = {} THEN <<>>
       ELSE SubSeq(text, CHOOSE i \in inked : \A j \in inked : i <= j,
                         CHOOSE i \in inked : \A j \in inked : i >= j)

\* str::lines().next().unwrap_or("").
first_line(text) == take_while(text, {text[i] : i \in 1 .. Len(text)} \ {"\n"})

\* extract_reasoning (ai_advisor.rs 372-389).
extract_reasoning(text) ==
    LET text_upper == to_uppercase(text)
        pos == find(text_upper, Chars("REASONING:"))
    IN IF pos = None THEN Extracted(None)
       ELSE LET after_label == str_from(text, pos[1] + 10)
            IN IF after_label = None THEN Panicked
               ELSE LET reasoning == trim(first_line(after_label[1]))
                    IN IF reasoning # <<>> THEN Extracted(Some(reasoning))
                       ELSE Extracted(None)

\* Option::or_else over extractions: the second is tried only when the
\* first found nothing, and a panic ends the parse.
or_else(first, second) ==
    IF first.panicked \/ first.value # None THEN first ELSE second

\* The recommendation with the RECOMMENDATION label tried before the
\* strong tokens.
parse_recommendation_label_first(response) ==
    LET response_upper == to_uppercase(response) IN
    IF contains(response_upper, Chars("RECOMMENDATION: BUY"))
         \/ contains(response_upper, Chars("RECOMMENDATION:BUY"))
    THEN "Buy"
    ELSE IF contains(response_upper, Chars("RECOMMENDATION: SELL"))
              \/ contains(response_upper, Chars("RECOMMENDATION:SELL"))
    THEN "Sell"
    ELSE IF contains(response_upper, Chars("STRONG_BUY"))
              \/ contains(response_upper, Chars("STRONG BUY"))
    THEN "StrongBuy"
    ELSE IF contains(response_upper, Chars("STRONG_SELL"))
              \/ contains(response_upper, Chars("STRONG SELL"))
    THEN "StrongSell"
    ELSE "Hold"

\* parse_ai_response, the recommendation (ai_advisor.rs 268-281).
parse_recommendation(response) ==
    LET response_upper == to_uppercase(response) IN
    IF contains(response_upper, Chars("STRONG_BUY"))
         \/ contains(response_upper, Chars("STRONG BUY"))
    THEN "StrongBuy"
    ELSE IF contains(response_upper, Chars("STRONG_SELL"))
              \/ contains(response_upper, Chars("STRONG SELL"))
    THEN "StrongSell"
    ELSE IF contains(response_upper, Chars("RECOMMENDATION: BUY"))
              \/ contains(response_upper, Chars("RECOMMENDATION:BUY"))
    THEN "Buy"
    ELSE IF contains(response_upper, Chars("RECOMMENDATION: SELL"))
              \/ contains(response_upper, Chars("RECOMMENDATION:SELL"))
    THEN "Sell"
    ELSE "Hold"

\* An extraction with the default of a required field.
unwrap_or_else(extraction, default) ==
    IF extraction.panicked \/ extraction.value # None THEN extraction
    ELSE Extracted(Some(default))

\* The stop loss defaulting to 5% of the price instead of 5% below it.
parse_stop_loss_five_percent_of_price(response, context) ==
    unwrap_or_else(or_else(extract_price(response, Chars("STOP_LOSS")),
                           extract_price(response, Chars("STOP LOSS"))),
                   DMul(context.current_price, Cent(5)))

\* parse_ai_response, the stop loss (ai_advisor.rs 287-289).
parse_stop_loss(response, context) ==
    unwrap_or_else(or_else(extract_price(response, Chars("STOP_LOSS")),
                           extract_price(response, Chars("STOP LOSS"))),
                   DMul(context.current_price, Cent(95)))

\* parse_ai_response, the take profit (ai_advisor.rs 291-293).
parse_take_profit(response, context) ==
    unwrap_or_else(or_else(extract_price(response, Chars("TAKE_PROFIT")),
                           extract_price(response, Chars("TAKE PROFIT"))),
                   DMul(context.current_price, Cent(110)))

\* parse_ai_response (ai_advisor.rs 267-329): the recommendation it
\* classified, and the targets it returned unless a slice panicked.
parse_ai_response(response, context) ==
    LET recommendation == parse_recommendation(response)
        confidence == unwrap_or_else(extract_percentage(response, Chars("CONFIDENCE")), D(50))
        stop_loss == parse_stop_loss(response, context)
        take_profit == parse_take_profit(response, context)
        buy_target == or_else(extract_price(response, Chars("BUY_TARGET")),
                              extract_price(response, Chars("BUY TARGET")))
        sell_target == or_else(extract_price(response, Chars("SELL_TARGET")),
                               extract_price(response, Chars("SELL TARGET")))
        support == extract_price(response, Chars("SUPPORT:"))
        strong_support == or_else(extract_price(response, Chars("STRONG_SUPPORT")),
                                  extract_price(response, Chars("STRONG SUPPORT")))
        resistance == extract_price(response, Chars("RESISTANCE:"))
        strong_resistance == or_else(extract_price(response, Chars("STRONG_RESISTANCE")),
                                     extract_price(response, Chars("STRONG RESISTANCE")))
        pivot == extract_price(response, Chars("PIVOT"))
        reasoning == unwrap_or_else(extract_reasoning(response), Chars("AI analysis completed"))
        extractions == <<confidence, stop_loss, take_profit, buy_target, sell_target,
                         support, strong_support, resistance, strong_resistance,
                         pivot, reasoning>>
    IN IF \E i \in 1 .. Len(extractions) : extractions[i].panicked
       THEN [panicked |-> TRUE, recommendation |-> recommendation, targets |-> None]
       ELSE [panicked |-> FALSE,
             recommendation |-> recommendation,
             targets |-> Some(
               [stop_loss_price |-> stop_loss.value[1],
                take_profit_price |-> take_profit.value[1],
                buy_target_price |-> buy_target.value,
                sell_target_price |-> sell_target.value,
                confidence |-> confidence.value[1],
                reasoning |-> reasoning.value[1],
                recommendation |-> recommendation,
                support |-> support.value,
                strong_support |-> strong_support.value,
                resistance |-> resistance.value,
                strong_resistance |-> strong_resistance.value,
                pivot_point |-> pivot.value])]

\* ------------------------------------------------------------- the clock

\* The locals of a loop before its first cycle, with what the process read
\* from its environment: OLLAMA_ENABLED and the symbol's simulated quote.
LoopLocals(ollama_enabled, sim_far) ==
    [ollama_enabled |-> ollama_enabled,
     sim_far |-> sim_far,
     current_targets |-> None,
     in_position |-> FALSE,
     position_qty |-> 0,
     entry_price |-> None,
     current_price |-> 0,
     market_context |-> None,
     recalc |-> [kind |-> "none", ai_requests |-> 0, ai |-> "none"],
     trade_limits |-> None,
     permission |-> None,
     order |-> None,
     placed |-> None,
     skipped |-> FALSE,
     halt |-> "none"]

Tick ==
    /\ now < MaxDay
    /\ now' = now + 1
    /\ UNCHANGED <<state_file, current_state, pc, mode, call, ledger, saved, loaded, faults, lp>>

\* ------------------------------------------- the limiter driven directly


NoCall == [op |-> "none", day |-> 0, ret |-> "none", stale |-> FALSE]

\* What the caller observes of a call: the method, the day of the clock, the
\* result, and whether the stored date differed from that day at the call.
Call(name, result) ==
    [op |-> name, day |-> now, ret |-> result, stale |-> current_state.date # now]

ApiNew ==
    /\ mode = "api"
    /\ \E outcome \in Outcomes : LimiterNew(outcome)
    /\ pc' = "api"
    /\ call' = Call("new", "limiter")
    /\ ledger' = [day |-> now, n |-> 0]
    /\ UNCHANGED <<now, mode, lp>>

ApiCanTrade ==
    /\ mode = "api" /\ pc = "api"
    /\ call' = Call("can_trade", can_trade(current_state, now))
    /\ saved' = <<>>
    /\ UNCHANGED <<now, state_file, current_state, pc, mode, ledger, loaded, faults, lp>>

ApiGetStatus ==
    /\ mode = "api" /\ pc = "api"
    /\ call' = Call("get_status", get_status(current_state, now))
    /\ saved' = <<>>
    /\ UNCHANGED <<now, state_file, current_state, pc, mode, ledger, loaded, faults, lp>>

\* record_trade that gives up when the write fails: the trade is dropped and
\* the error is returned.
ApiRecordTrade_write_error_fatal ==
    /\ mode = "api" /\ pc = "api"
    /\ \E side \in Sides, price \in TradePrices, quantity \in TradeQuantities,
          outcome \in Outcomes :
         LET st == record_trade(current_state, now, Symbol, side, price, quantity) IN
         /\ Len(st.trades_today) <= MaxTrades
         /\ current_state' = IF outcome = "ok" THEN st ELSE current_state
         /\ state_file' = save_state(state_file, st, outcome)
         /\ saved' = <<SaveAttempt(st, outcome)>>
         /\ faults' = FaultsAfter(outcome)
         /\ call' = Call("record_trade", IF outcome = "ok" THEN "Ok" ELSE "Err")
    /\ ledger' = [day |-> now, n |-> IF ledger.day = now THEN ledger.n + 1 ELSE 1]
    /\ UNCHANGED <<now, pc, mode, loaded, lp>>

ApiRecordTrade ==
    /\ mode = "api" /\ pc = "api"
    /\ \E side \in Sides, price \in TradePrices, quantity \in TradeQuantities,
          outcome \in Outcomes :
         LET st == record_trade(current_state, now, Symbol, side, price, quantity) IN
         /\ Len(st.trades_today) <= MaxTrades
         /\ current_state' = st
         /\ state_file' = save_state(state_file, st, outcome)
         /\ saved' = <<SaveAttempt(st, outcome)>>
         /\ faults' = FaultsAfter(outcome)
    /\ call' = Call("record_trade", "Ok")
    /\ ledger' = [day |-> now, n |-> IF ledger.day = now THEN ledger.n + 1 ELSE 1]
    /\ UNCHANGED <<now, pc, mode, loaded, lp>>

ApiUpdatePnl ==
    /\ mode = "api" /\ pc = "api"
    /\ \E pnl \in PnlAmounts, outcome \in Outcomes :
         LET st == update_pnl(current_state, pnl) IN
         /\ current_state' = st
         /\ state_file' = save_state(state_file, st, outcome)
         /\ saved' = <<SaveAttempt(st, outcome)>>
         /\ faults' = FaultsAfter(outcome)
    /\ call' = Call("update_pnl", "unit")
    /\ UNCHANGED <<now, pc, mode, ledger, loaded, lp>>

InitialFiles == {MissingFile, UnreadableFile, TextFile(<<>>)}

LimiterInit ==
    /\ now = 1
    /\ state_file \in InitialFiles
    /\ current_state = NoLimiter
    /\ pc = "boot"
    /\ mode = "api"
    /\ call = NoCall
    /\ ledger = [day |-> 0, n |-> 0]
    /\ saved = <<>>
    /\ loaded = "none"
    /\ faults = 0
    /\ lp = LoopLocals(FALSE, FALSE)

LimiterNext ==
    \/ ApiNew
    \/ ApiCanTrade
    \/ ApiGetStatus
    \/ ApiRecordTrade
    \/ ApiUpdatePnl
    \/ Tick

LimiterSpec == LimiterInit /\ [][LimiterNext]_vars

\* ------------------------------------------------------ the polling loops

\* CoinGecko prices of a cycle (0: a quote of zero) and SimulationExchange
\* quotes: near the market, or the 42000.00 default of a symbol that has no
\* simulated quote.
DefaultSimPrice == 42000

MarketPrices == {D(95), D(100)}

\* CoinGeckoMarketData with the indicators main.rs derives from it: a flat
\* day without enough hourly data for the indicators, and a wide day.
FlatMarket(c) ==
    [current_price |-> c, high_24h |-> c, low_24h |-> c,
     price_change_24h_percent |-> 0,
     sma_short |-> None, sma_long |-> None, rsi |-> None,
     high_48h |-> None, low_48h |-> None]

WideMarket(c) ==
    [current_price |-> c, high_24h |-> c + D(10), low_24h |-> c - D(10),
     price_change_24h_percent |-> D(6),
     sma_short |-> Some(D(103)), sma_long |-> Some(D(100)), rsi |-> Some(D(25)),
     high_48h |-> Some(c + D(10)), low_48h |-> Some(c - D(10))]

MarketDataSet == {FlatMarket(0), FlatMarket(D(100)), WideMarket(D(100))}

\* main.rs 141: the context of a cycle without market data.
SyntheticMarket(c) ==
    [current_price |-> c,
     high_24h |-> DMul(c, Cent(102)), low_24h |-> DMul(c, Cent(98)),
     price_change_24h_percent |-> 0,
     sma_short |-> None, sma_long |-> None, rsi |-> None,
     high_48h |-> None, low_48h |-> None]

\* Targets parse_ai_response returned for a completion.
AiTargetsSet ==
    {[stop_loss_price |-> D(96),
      take_profit_price |-> D(99),
      buy_target_price |-> Some(D(97)),
      sell_target_price |-> None,
      confidence |-> D(72),
      reasoning |-> <<"AI analysis completed">>,
      recommendation |-> "Buy",
      support |-> None,
      strong_support |-> None,
      resistance |-> None,
      strong_resistance |-> None,
      pivot_point |-> None]}

\* SimulationExchange::get_price: a step of the random walk.
SimQuotes(far) == IF far THEN {D(DefaultSimPrice)} ELSE MarketPrices

\* The locals of one iteration go out of scope at its end.
EndOfCycle(l) ==
    [l EXCEPT !.current_price = 0, !.market_context = None,
              !.recalc = [kind |-> "none", ai_requests |-> 0, ai |-> "none"],
              !.permission = None, !.order = None, !.placed = None,
              !.skipped = FALSE]

LimiterFrame == <<state_file, current_state, saved, loaded, faults>>

\* run_simulation_loop, up to the loop (main.rs 56-96).
SimBoot ==
    /\ mode = "simulation" /\ pc = "boot"
    /\ \E outcome \in Outcomes : LimiterNew(outcome)
    /\ \E enabled \in BOOLEAN, far \in BOOLEAN : lp' = LoopLocals(enabled, far)
    /\ pc' = "fetch"
    /\ UNCHANGED <<now, mode, call, ledger>>

\* One cycle from its start to the market context (main.rs 98-179).
SimFetch ==
    /\ mode = "simulation" /\ pc = "fetch"
    /\ \E fetched \in BOOLEAN :
         \E ctx \in (IF fetched THEN MarketDataSet
                     ELSE {SyntheticMarket(q) : q \in SimQuotes(lp.sim_far)}) :
           IF ctx.current_price = 0
           THEN /\ lp' = [EndOfCycle(lp) EXCEPT !.skipped = TRUE]
                /\ pc' = "fetch"
           ELSE /\ lp' = [lp EXCEPT !.current_price = ctx.current_price,
                                    !.market_context = Some(ctx),
                                    !.skipped = FALSE]
                /\ pc' = "recalc"
    /\ saved' = <<>> /\ loaded' = "none"
    /\ UNCHANGED <<now, mode, call, ledger, state_file, current_state, faults>>

\* The recalculation computing the fallback only when the AI is not asked.
SimRecalc_fallback_only_without_ai ==
    /\ mode = "simulation" /\ pc = "recalc"
    /\ \E elapsed \in BOOLEAN, client_ok \in BOOLEAN, healthy \in BOOLEAN :
         LET should_recalc == lp.current_targets = None \/ elapsed
             fallback == FallbackTargets(lp.market_context[1])
         IN IF ~should_recalc
            THEN /\ lp' = [lp EXCEPT !.recalc = [kind |-> "kept", ai_requests |-> 0, ai |-> "none"]]
                 /\ pc' = "decide"
            ELSE IF lp.ollama_enabled /\ client_ok /\ healthy
                 THEN /\ lp' = [lp EXCEPT !.recalc = [kind |-> "fallback", ai_requests |-> 1, ai |-> "requested"]]
                      /\ pc' = "ai"
                 ELSE /\ lp' = [lp EXCEPT !.current_targets = Some(fallback),
                                          !.recalc = [kind |-> "fallback", ai_requests |-> 0,
                                                      ai |-> IF ~lp.ollama_enabled THEN "disabled"
                                                             ELSE IF ~client_ok THEN "client_error"
                                                             ELSE "unhealthy"]]
                      /\ pc' = "decide"
    /\ UNCHANGED <<now, mode, call, ledger, LimiterFrame>>

\* The recalculation up to the AI request (main.rs 181-199).
SimRecalc ==
    /\ mode = "simulation" /\ pc = "recalc"
    /\ \E elapsed \in BOOLEAN, client_ok \in BOOLEAN, healthy \in BOOLEAN :
         LET should_recalc == lp.current_targets = None \/ elapsed
             fallback == FallbackTargets(lp.market_context[1])
         IN IF ~should_recalc
            THEN /\ lp' = [lp EXCEPT !.recalc = [kind |-> "kept", ai_requests |-> 0, ai |-> "none"]]
                 /\ pc' = "decide"
            ELSE IF lp.ollama_enabled /\ client_ok /\ healthy
                 THEN /\ lp' = [lp EXCEPT !.current_targets = Some(fallback),
                                          !.recalc = [kind |-> "fallback", ai_requests |-> 1, ai |-> "requested"]]
                      /\ pc' = "ai"
                 ELSE /\ lp' = [lp EXCEPT !.current_targets = Some(fallback),
                                          !.recalc = [kind |-> "fallback", ai_requests |-> 0,
                                                      ai |-> IF ~lp.ollama_enabled THEN "disabled"
                                                             ELSE IF ~client_ok THEN "client_error"
                                                             ELSE "unhealthy"]]
                      /\ pc' = "decide"
    /\ UNCHANGED <<now, mode, call, ledger, LimiterFrame>>

\* The end of the AI request under its timeout (main.rs 201-220).
SimAi ==
    /\ mode = "simulation" /\ pc = "ai"
    /\ \E result \in {"ok", "error", "timeout"}, targets \in AiTargetsSet :
         lp' = [lp EXCEPT
                  !.current_targets = IF result = "ok" THEN Some(targets) ELSE @,
                  !.recalc = [kind |-> IF result = "ok" THEN "ai" ELSE "fallback",
                              ai_requests |-> @.ai_requests,
                              ai |-> result]]
    /\ pc' = "decide"
    /\ UNCHANGED <<now, mode, call, ledger, LimiterFrame>>

Order(side, qty, price, pnl) == [side |-> side, qty |-> qty, price |-> price, pnl |-> pnl]

\* The trading logic with the stop-loss exit not asking for permission.
SimDecision_ungated_stop_loss(targets, can, in_position, position_qty, entry_price, current_price, qty) ==
    IF in_position
    THEN LET entry == unwrap_or(entry_price, current_price)
             sell == Some(Order("SELL", position_qty, current_price,
                                DMul(current_price - entry, position_qty)))
         IN IF current_price <= targets.stop_loss_price
            THEN sell
            ELSE IF current_price >= targets.take_profit_price
            THEN (IF can THEN sell ELSE None)
            ELSE IF targets.sell_target_price # None
                    /\ current_price >= targets.sell_target_price[1]
            THEN (IF can THEN sell ELSE None)
            ELSE None
    ELSE IF targets.buy_target_price # None
            /\ current_price <= targets.buy_target_price[1] /\ can
            /\ qty > 0
         THEN Some(Order("BUY", qty, current_price, 0))
         ELSE None

\* The trading logic with the take-profit exit not asking for permission.
SimDecision_ungated_take_profit(targets, can, in_position, position_qty, entry_price, current_price, qty) ==
    IF in_position
    THEN LET entry == unwrap_or(entry_price, current_price)
             sell == Some(Order("SELL", position_qty, current_price,
                                DMul(current_price - entry, position_qty)))
         IN IF current_price <= targets.stop_loss_price
            THEN (IF can THEN sell ELSE None)
            ELSE IF current_price >= targets.take_profit_price
            THEN sell
            ELSE IF targets.sell_target_price # None
                    /\ current_price >= targets.sell_target_price[1]
            THEN (IF can THEN sell ELSE None)
            ELSE None
    ELSE IF targets.buy_target_price # None
            /\ current_price <= targets.buy_target_price[1] /\ can
            /\ qty > 0
         THEN Some(Order("BUY", qty, current_price, 0))
         ELSE None

\* The order the trading logic decides on (main.rs 232-297); None for none.
SimDecision(targets, can, in_position, position_qty, entry_price, current_price, qty) ==
    IF in_position
    THEN LET entry == unwrap_or(entry_price, current_price)
             sell == Some(Order("SELL", position_qty, current_price,
                                DMul(current_price - entry, position_qty)))
         IN IF current_price <= targets.stop_loss_price
            THEN (IF can THEN sell ELSE None)
            ELSE IF current_price >= targets.take_profit_price
            THEN (IF can THEN sell ELSE None)
            ELSE IF targets.sell_target_price # None
                    /\ current_price >= targets.sell_target_price[1]
            THEN (IF can THEN sell ELSE None)
            ELSE None
    ELSE IF targets.buy_target_price # None
            /\ current_price <= targets.buy_target_price[1] /\ can
            /\ qty > 0
         THEN Some(Order("BUY", qty, current_price, 0))
         ELSE None

\* The trade-limit report and the trading logic of a cycle (main.rs 223-297).
SimDecide ==
    /\ mode = "simulation" /\ pc = "decide"
    /\ \E qty \in TradeQuantities \cup {0} :
         LET trade_status == get_status(current_state, now)
             permission == can_trade(current_state, now)
             order == IF lp.current_targets = None THEN None
                      ELSE SimDecision(lp.current_targets[1], is_allowed(permission),
                                       lp.in_position, lp.position_qty, lp.entry_price,
                                       lp.current_price, qty)
         IN /\ lp' = [lp EXCEPT
                        !.trade_limits = Some([trades_today |-> trade_status.trades_executed,
                                               can_trade |-> trade_status.can_trade,
                                               next_trading_day |->
                                                   IF trade_status.can_trade THEN None
                                                   ELSE Some(trade_status.date)]),
                        !.permission = Some(permission),
                        !.order = order]
            /\ pc' = IF order = None THEN "balance" ELSE "order"
    /\ UNCHANGED <<now, mode, call, ledger, LimiterFrame>>

\* The orders the exchange accepted, counted per calendar date.
Placed(l, today) == [day |-> today, n |-> IF l.day = today THEN l.n + 1 ELSE 1]

\* SimulationExchange::place_order: a buy of a tenth of the balance at the
\* cycle's price costs more than the balance iff the simulated quote is
\* more than ten times that price; a sell of the bought quantity is covered.
place_order_ok(order, quote) ==
    IF order.side = "BUY" THEN quote <= 10 * order.price ELSE TRUE

\* execute_buy / execute_sell recording the trade before the order is
\* submitted: a rejected order leaves its record behind.
SimOrder_record_first ==
    /\ mode = "simulation" /\ pc = "order"
    /\ \E quote \in SimQuotes(lp.sim_far), o1 \in Outcomes :
         LET order == lp.order[1]
             recorded == record_trade(current_state, now, Symbol, order.side,
                                      order.price, order.qty)
             file1 == save_state(state_file, recorded, o1)
         IN IF ~place_order_ok(order, quote)
            THEN /\ lp' = [lp EXCEPT !.placed = Some("Err"), !.halt = "order"]
                 /\ pc' = "halted"
                 /\ current_state' = recorded
                 /\ state_file' = file1
                 /\ saved' = <<SaveAttempt(recorded, o1)>>
                 /\ faults' = FaultsAfter(o1)
                 /\ UNCHANGED ledger
            ELSE IF order.side = "BUY"
            THEN /\ current_state' = recorded
                 /\ state_file' = file1
                 /\ saved' = <<SaveAttempt(recorded, o1)>>
                 /\ faults' = FaultsAfter(o1)
                 /\ lp' = [lp EXCEPT !.placed = Some("Ok"), !.in_position = TRUE,
                                     !.position_qty = order.qty,
                                     !.entry_price = Some(order.price)]
                 /\ ledger' = Placed(ledger, now)
                 /\ pc' = "balance"
            ELSE \E o2 \in (IF FaultsAfter(o1) < MaxFaults THEN WriteOutcomes ELSE {"ok"}) :
                 LET updated == update_pnl(recorded, order.pnl) IN
                 /\ current_state' = updated
                 /\ state_file' = save_state(file1, updated, o2)
                 /\ saved' = <<SaveAttempt(recorded, o1), SaveAttempt(updated, o2)>>
                 /\ faults' = FaultsAfter(o1) + (IF o2 = "ok" THEN 0 ELSE 1)
                 /\ lp' = [lp EXCEPT !.placed = Some("Ok"), !.in_position = FALSE,
                                     !.position_qty = 0,
                                     !.entry_price = None]
                 /\ ledger' = Placed(ledger, now)
                 /\ pc' = "balance"
    /\ UNCHANGED <<now, mode, call, loaded>>

\* execute_buy / execute_sell (main.rs 328-376) and the locals set after it.
SimOrder ==
    /\ mode = "simulation" /\ pc = "order"
    /\ \E quote \in SimQuotes(lp.sim_far), o1 \in Outcomes :
         LET order == lp.order[1]
             recorded == record_trade(current_state, now, Symbol, order.side,
                                      order.price, order.qty)
             file1 == save_state(state_file, recorded, o1)
         IN IF ~place_order_ok(order, quote)
            THEN /\ lp' = [lp EXCEPT !.placed = Some("Err"), !.halt = "order"]
                 /\ pc' = "halted"
                 /\ saved' = <<>>
                 /\ UNCHANGED <<state_file, current_state, faults, ledger>>
            ELSE IF order.side = "BUY"
            THEN /\ current_state' = recorded
                 /\ state_file' = file1
                 /\ saved' = <<SaveAttempt(recorded, o1)>>
                 /\ faults' = FaultsAfter(o1)
                 /\ lp' = [lp EXCEPT !.placed = Some("Ok"), !.in_position = TRUE,
                                     !.position_qty = order.qty,
                                     !.entry_price = Some(order.price)]
                 /\ ledger' = Placed(ledger, now)
                 /\ pc' = "balance"
            ELSE \E o2 \in (IF FaultsAfter(o1) < MaxFaults THEN WriteOutcomes ELSE {"ok"}) :
                 LET updated == update_pnl(recorded, order.pnl) IN
                 /\ current_state' = updated
                 /\ state_file' = save_state(file1, updated, o2)
                 /\ saved' = <<SaveAttempt(recorded, o1), SaveAttempt(updated, o2)>>
                 /\ faults' = FaultsAfter(o1) + (IF o2 = "ok" THEN 0 ELSE 1)
                 /\ lp' = [lp EXCEPT !.placed = Some("Ok"), !.in_position = FALSE,
                                     !.position_qty = 0,
                                     !.entry_price = None]
                 /\ ledger' = Placed(ledger, now)
                 /\ pc' = "balance"
    /\ UNCHANGED <<now, mode, call, loaded>>

\* The balance update, the report and the sleep (main.rs 300-325).
SimBalance ==
    /\ mode = "simulation" /\ pc = "balance"
    /\ \E report_ok \in BOOLEAN :
         IF report_ok
         THEN /\ pc' = "fetch"
              /\ lp' = EndOfCycle(lp)
         ELSE /\ pc' = "halted"
              /\ lp' = [lp EXCEPT !.halt = "report"]
    /\ UNCHANGED <<now, mode, call, ledger, LimiterFrame>>

\* run_live_loop, up to the loop (main.rs 379-411).
LiveBoot ==
    /\ mode = "live" /\ pc = "boot"
    /\ \E connected \in BOOLEAN, outcome \in Outcomes :
         IF connected
         THEN /\ LimiterNew(outcome)
              /\ lp' = LoopLocals(FALSE, FALSE)
              /\ pc' = "fetch"
         ELSE /\ lp' = [LoopLocals(FALSE, FALSE) EXCEPT !.halt = "startup"]
              /\ pc' = "halted"
              /\ UNCHANGED LimiterFrame
    /\ UNCHANGED <<now, mode, call, ledger>>

\* The price of a live cycle (main.rs 413-429).
LiveFetch ==
    /\ mode = "live" /\ pc = "fetch"
    /\ \E price \in MarketPrices \cup {0}, fetched \in BOOLEAN :
         IF fetched
         THEN /\ lp' = [lp EXCEPT !.current_price = price, !.skipped = FALSE]
              /\ pc' = "recalc"
         ELSE /\ lp' = [EndOfCycle(lp) EXCEPT !.skipped = TRUE]
              /\ pc' = "fetch"
    /\ saved' = <<>> /\ loaded' = "none"
    /\ UNCHANGED <<now, mode, call, ledger, state_file, current_state, faults>>

\* The recalculation of a live cycle (main.rs 431-468).
LiveRecalc ==
    /\ mode = "live" /\ pc = "recalc"
    /\ \E elapsed \in BOOLEAN, fetched \in BOOLEAN, data \in MarketDataSet :
         LET should_recalc == lp.current_targets = None \/ elapsed
             ctx == [data EXCEPT !.current_price = lp.current_price]
         IN IF should_recalc /\ fetched
            THEN lp' = [lp EXCEPT !.market_context = Some(ctx),
                                  !.current_targets = Some(FallbackTargets(ctx)),
                                  !.recalc = [kind |-> "fallback", ai_requests |-> 0, ai |-> "none"]]
            ELSE lp' = [lp EXCEPT !.recalc = [kind |-> "kept", ai_requests |-> 0, ai |-> "none"]]
    /\ pc' = "decide"
    /\ UNCHANGED <<now, mode, call, ledger, LimiterFrame>>

\* The trade-limit report, the alerts and the report of a live cycle
\* (main.rs 470-492).
LiveDecide ==
    /\ mode = "live" /\ pc = "decide"
    /\ \E report_ok \in BOOLEAN :
         LET trade_status == get_status(current_state, now) IN
         /\ lp' = [(IF report_ok THEN EndOfCycle(lp) ELSE lp) EXCEPT
                     !.trade_limits = Some([trades_today |-> trade_status.trades_executed,
                                            can_trade |-> trade_status.can_trade,
                                            next_trading_day |->
                                                IF trade_status.can_trade THEN None
                                                ELSE Some(trade_status.date)]),
                     !.halt = IF report_ok THEN @ ELSE "report"]
         /\ pc' = IF report_ok THEN "fetch" ELSE "halted"
    /\ UNCHANGED <<now, mode, call, ledger, LimiterFrame>>

\* The process ends (killed, or returned from main) and is started again.
Restart ==
    /\ mode \in {"simulation", "live"} /\ pc # "boot"
    /\ pc' = "boot"
    /\ current_state' = NoLimiter
    /\ lp' = LoopLocals(FALSE, FALSE)
    /\ saved' = <<>>
    /\ UNCHANGED <<now, state_file, mode, call, ledger, loaded, faults>>

Init ==
    /\ now = 1
    /\ state_file \in InitialFiles
    /\ current_state = NoLimiter
    /\ pc = "boot"
    /\ mode \in {"simulation", "live"}
    /\ call = NoCall
    /\ ledger = [day |-> 0, n |-> 0]
    /\ saved = <<>>
    /\ loaded = "none"
    /\ faults = 0
    /\ lp = LoopLocals(FALSE, FALSE)

Next ==
    \/ SimBoot
    \/ SimFetch
    \/ SimRecalc
    \/ SimAi
    \/ SimDecide
    \/ SimOrder
    \/ SimBalance
    \/ LiveBoot
    \/ LiveFetch
    \/ LiveRecalc
    \/ LiveDecide
    \/ Restart
    \/ Tick

Spec == Init /\ [][Next]_vars

\* ------------------------------------------------- the parser on responses

\* Pieces of completions: labelled lines as the prompt asks for them, lines
\* in another case or spacing, a malformed number, prose, and characters
\* outside ASCII.
SegStopLoss == Chars("STOP_LOSS: $97\n")
SegStopLossSpaced == Chars("stop loss: 96.5\n")
SegStopLossMalformed == Chars("STOP_LOSS: 1.2.3\n")
SegTakeProfit == Chars("TAKE_PROFIT: $1,106\n")
SegSupport == Chars("SUPPORT: 90\n")
SegStrongSupport == Chars("STRONG_SUPPORT: 80\n")
SegResistance == Chars("RESISTANCE: 110\n")
SegStrongResistance == Chars("STRONG_RESISTANCE: 120\n")
SegConfidence == Chars("CONFIDENCE: 72%\n")
SegConfidenceOver == Chars("CONFIDENCE: 150%\n")
SegRecommendBuy == Chars("RECOMMENDATION:BUY\n")
SegRecommendSell == Chars("RECOMMENDATION: SELL\n")
SegStrongBuy == Chars("a STRONG_BUY\n")
SegStrongSell == Chars("strong sell\n")
SegReasoning == Chars("REASONING:  dip \n")
SegProse == Chars("see pivot")
SegNApostrophe == <<"U+0149">>
SegEAcute == <<"U+00E9">>
SegEuro == <<"U+20AC">>

Segments ==
    {SegStopLoss, SegStopLossSpaced, SegStopLossMalformed, SegTakeProfit,
     SegSupport, SegStrongSupport, SegResistance, SegStrongResistance,
     SegConfidence, SegConfidenceOver, SegRecommendBuy, SegRecommendSell,
     SegStrongBuy, SegStrongSell, SegReasoning, SegProse,
     SegNApostrophe, SegEAcute, SegEuro}

RECURSIVE Concat(_)
Concat(segments) ==
    IF segments = <<>> THEN <<>>
    ELSE Head(segments) \o Concat(Tail(segments))

ParserPrices == {D(100), D(40)}

\* A response and the context of its cycle, handed to parse_ai_response by
\* calculate_targets (ai_advisor.rs 130-161).
ParserInit ==
    /\ now = 1
    /\ state_file = MissingFile
    /\ current_state = NoLimiter
    /\ mode = "parser"
    /\ pc = "response"
    /\ call = NoCall
    /\ ledger = [day |-> 0, n |-> 0]
    /\ saved = <<>>
    /\ loaded = "none"
    /\ faults = 0
    /\ \E n \in 0 .. MaxSegments :
         \E segments \in [1 .. n -> Segments], price \in ParserPrices :
           lp = [segments |-> segments,
                 response |-> Concat(segments),
                 context |-> FlatMarket(price),
                 parsed |-> None]

ParseResponse ==
    /\ mode = "parser" /\ pc = "response"
    /\ lp' = [lp EXCEPT !.parsed = Some(parse_ai_response(lp.response, lp.context))]
    /\ pc' = "parsed"
    /\ UNCHANGED <<now, state_file, current_state, mode, call, ledger, saved, loaded, faults>>

ParserNext == ParseResponse

ParserSpec == ParserInit /\ [][ParserNext]_vars

\* ------------------------------------------- the calculator on snapshots

\* Market contexts: a price (0 for a missing quote), 24h highs and lows from
\* narrow to extreme, the 48h window present or not, and the indicators
\* present or not on either side of each threshold.
CalcPrices == {0, D(100)}

CalcHighs == {D(95), D(103), D(110), D(1000)}

CalcLows == {D(1), D(90), D(96), D(97)}

CalcHighs48 == {None, Some(D(120))}

CalcLows48 == {None, Some(D(80))}

CalcRsi ==
    {None, Some(D(25)), Some(D(30)), Some(D(35)), Some(D(79) \div 2), Some(D(40)),
     Some(D(50)), Some(D(60)), Some(D(65)), Some(D(70)), Some(D(75))}

CalcSma ==
    {<<None, None>>, <<Some(D(100)), None>>, <<Some(D(103)), Some(D(100))>>,
     <<Some(D(101)), Some(D(100))>>, <<Some(D(100)), Some(D(100))>>,
     <<Some(D(99)), Some(D(100))>>, <<Some(D(97)), Some(D(100))>>}

CalcChanges == {D(0 - 6), 0, D(6)}

CalcInit ==
    /\ now = 1
    /\ state_file = MissingFile
    /\ current_state = NoLimiter
    /\ mode = "calculator"
    /\ pc = "context"
    /\ call = NoCall
    /\ ledger = [day |-> 0, n |-> 0]
    /\ saved = <<>>
    /\ loaded = "none"
    /\ faults = 0
    /\ \E current \in CalcPrices, high \in CalcHighs, low \in CalcLows,
          high48 \in CalcHighs48, low48 \in CalcLows48,
          rsi \in CalcRsi, sma \in CalcSma, change \in CalcChanges :
         lp = [context |-> [current_price |-> current,
                            high_24h |-> high, low_24h |-> low,
                            price_change_24h_percent |-> change,
                            sma_short |-> sma[1], sma_long |-> sma[2], rsi |-> rsi,
                            high_48h |-> high48, low_48h |-> low48],
               targets |-> None]

Calculate ==
    /\ mode = "calculator" /\ pc = "context"
    /\ lp' = [lp EXCEPT !.targets = Some(FallbackTargets(lp.context))]
    /\ pc' = "calculated"
    /\ UNCHANGED <<now, state_file, current_state, mode, call, ledger, saved, loaded, faults>>

CalcNext == Calculate

CalcSpec == CalcInit /\ [][CalcNext]_vars

\* ------------------------------------- two callers sharing one limiter

\* Two callers follow the loop's protocol on one shared limiter: ask
\* can_trade, await the order, then record_trade. Nothing holds the limiter
\* between the question and the record, so the steps interleave freely.
Workers == {"w1", "w2"}

\* A caller between calls: no permission held, nothing recorded this round.
IdleWorker == [pc |-> "idle", permission |-> None, seen |-> 0, day |-> 0]

RaceInit ==
    /\ now = 1
    /\ state_file = TextFile(Serialize(new_for_today(1)))
    /\ current_state = new_for_today(1)
    /\ mode = "race"
    /\ pc = "race"
    /\ call = NoCall
    /\ ledger = [day |-> 0, n |-> 0]
    /\ saved = <<>>
    /\ loaded = "missing"
    /\ faults = 0
    /\ lp = [w \in Workers |-> IdleWorker]

\* let can_trade = matches!(trade_limiter.can_trade(), Allowed { .. })
WorkerCheck(w) ==
    /\ mode = "race" /\ lp[w].pc # "checked"
    /\ lp' = [lp EXCEPT ![w] = [pc |-> "checked",
                                 permission |-> Some(can_trade(current_state, now)),
                                 seen |-> get_status(current_state, now).trades_executed,
                                 day |-> now]]
    /\ call' = Call("can_trade", can_trade(current_state, now))
    /\ saved' = <<>>
    /\ UNCHANGED <<now, state_file, current_state, pc, mode, ledger, loaded, faults>>

\* if can_trade { execute_*(...) }: the order went through and the trade is
\* recorded on the permission obtained earlier.
WorkerRecord(w) ==
    /\ mode = "race" /\ lp[w].pc = "checked"
    /\ is_allowed(lp[w].permission[1])
    /\ \E side \in Sides, outcome \in Outcomes :
         LET st == record_trade(current_state, now, Symbol, side, 100 * SCALE, SCALE) IN
         /\ current_state' = st
         /\ state_file' = save_state(state_file, st, outcome)
         /\ saved' = <<SaveAttempt(st, outcome)>>
         /\ faults' = FaultsAfter(outcome)
    /\ lp' = [lp EXCEPT ![w].pc = "recorded"]
    /\ call' = Call("record_trade", "Ok")
    /\ ledger' = [day |-> now, n |-> IF ledger.day = now THEN ledger.n + 1 ELSE 1]
    /\ UNCHANGED <<now, pc, mode, loaded>>

\* The permission was DailyLimitReached, or no target was hit: nothing is
\* recorded in this round.
WorkerSkip(w) ==
    /\ mode = "race" /\ lp[w].pc = "checked"
    /\ lp' = [lp EXCEPT ![w].pc = "skipped"]
    /\ UNCHANGED <<now, state_file, current_state, pc, mode, call, ledger, saved, loaded, faults>>

RaceNext ==
    \/ \E w \in Workers : WorkerCheck(w)
    \/ \E w \in Workers : WorkerRecord(w)
    \/ \E w \in Workers : WorkerSkip(w)
    \/ Tick

RaceSpec == RaceInit /\ [][RaceNext]_vars

\* ---------------------------------------------------------------- claims

EmptyState(day) ==
    [date |-> day,
     trades_today |-> <<>>,
     first_trade_executed |-> FALSE,
     second_trade_executed |-> FALSE,
     daily_pnl |-> 0]

FirstAllowed == [tag |-> "Allowed", is_first_trade |-> TRUE, trades_remaining |-> 2]

SecondAllowed == [tag |-> "Allowed", is_first_trade |-> FALSE, trades_remaining |-> 1]

LimitReached(executed, day) ==
    [tag |-> "DailyLimitReached", trades_executed |-> executed, next_trading_day |-> day + 1]

\* The number of record_trade calls the caller made on the day of the last call.
RecordedOn(day) == IF ledger.day = day THEN ledger.n ELSE 0

ExpectedPermission(n, day) ==
    CASE n = 0 -> FirstAllowed
      [] n = 1 -> SecondAllowed
      [] OTHER -> LimitReached(n, day)

\* C1: a limiter that started empty answers can_trade by the number of
\* record_trade calls made on the day of the question: none -> Allowed{first,
\* 2 remaining}, one -> Allowed{not first, 1 remaining}, two ->
\* DailyLimitReached{2, tomorrow}; calls of an earlier day do not count, so
\* after a date change the answer is Allowed{first, 2} again with no reset call.
C1_DailyLimiterCycle ==
    (mode = "api" /\ call.op = "can_trade" /\ loaded # "resumed"
        /\ RecordedOn(call.day) <= max_trades_per_day)
    => call.ret = ExpectedPermission(RecordedOn(call.day), call.day)

\* Two trades were recorded on an earlier day, the limit was reached, and
\* after the date change can_trade allows the first trade again.
C1_Witness ==
    /\ mode = "api" /\ call.op = "can_trade" /\ loaded # "resumed"
    /\ ledger.n = 2 /\ ledger.day < call.day
    /\ current_state.date = ledger.day
    /\ call.ret = FirstAllowed

\* C4: when every write so far succeeded, constructing a new TradeLimiter on
\* the state's own date resumes exactly the state of the instance that wrote
\* the record: same trades, same flags, same daily P&L, hence the same
\* can_trade result.
C4_RestartEquivalence ==
    [][(now' = now /\ pc = "api" /\ call'.op = "new"
          /\ faults = 0 /\ current_state.date = now)
       => /\ current_state' = current_state
          /\ loaded' = "resumed"
          /\ state_file' = state_file]_vars

\* A limiter resumed, with no failed write, a day of two trades and a
\* negative daily P&L.
C4_Witness ==
    /\ mode = "api" /\ call.op = "new" /\ loaded = "resumed" /\ faults = 0
    /\ Len(current_state.trades_today) = 2
    /\ current_state.trades_today[1].side # current_state.trades_today[2].side
    /\ current_state.daily_pnl < 0

BadRecord(file, today) ==
    \/ file.kind \in {"missing", "unreadable"}
    \/ \E k \in StateKeys : \A i \in 1..Len(file.text) : file.text[i][1] # k
    \/ Field(file.text, "date") # today

\* C5: constructing a TradeLimiter over a record that is missing, unreadable,
\* not a serialized state, or dated another day yields the empty state of
\* today and attempts at once to write exactly that state (the record holds
\* it when the write succeeds); the construction completes.
C5_FreshOnBadRecord ==
    [][(now' = now /\ mode = "api" /\ call'.op = "new" /\ BadRecord(state_file, now))
       => /\ current_state' = EmptyState(now)
          /\ pc' = "api"
          /\ Len(saved') = 1
          /\ saved'[1].text = Serialize(EmptyState(now))
          /\ (saved'[1].outcome = "ok"
                => state_file' = TextFile(Serialize(EmptyState(now))))]_vars

\* A construction that found a record of an earlier day and replaced it.
C5_Witness ==
    /\ mode = "api" /\ call.op = "new" /\ loaded = "stale"
    /\ current_state = EmptyState(call.day)
    /\ state_file = TextFile(Serialize(EmptyState(call.day)))

\* C6: record_trade on a date other than the stored one discards the old day:
\* afterwards the state is dated today, holds exactly the new trade (marked
\* first), first_trade_executed is set, second_trade_executed is not, the
\* daily P&L is 0, and this state is the one handed to save_state.
C6_RecordOnNewDay ==
    [][(now' = now /\ mode = "api" /\ pc = "api" /\ call'.op = "record_trade"
          /\ current_state.date # now)
       => /\ current_state'.date = now
          /\ Len(current_state'.trades_today) = 1
          /\ current_state'.trades_today[1].is_first_trade
          /\ current_state'.trades_today[1].timestamp = now
          /\ current_state'.first_trade_executed
          /\ ~current_state'.second_trade_executed
          /\ current_state'.daily_pnl = 0
          /\ Len(saved') = 1
          /\ saved'[1].text = Serialize(current_state')
          /\ (saved'[1].outcome = "ok"
                => state_file' = TextFile(Serialize(current_state')))]_vars

\* A trade recorded on a day other than the stored one, now the only trade
\* of the state, and the record holding that state.
C6_Witness ==
    /\ mode = "api" /\ call.op = "record_trade" /\ call.stale
    /\ ledger = [day |-> call.day, n |-> 1]
    /\ current_state.date = call.day /\ call.day > 1
    /\ Len(current_state.trades_today) = 1
    /\ state_file = TextFile(Serialize(current_state))

EmptyDayStatus(day) ==
    [date |-> day,
     trades_executed |-> 0,
     trades_remaining |-> 2,
     first_trade |-> <<>>,
     second_trade |-> <<>>,
     daily_pnl |-> 0,
     can_trade |-> TRUE]

\* C7: can_trade and get_status leave the in-memory state and the record
\* untouched; asked on a date other than the stored one they answer for an
\* empty day (Allowed{first, 2 remaining}; status of today with 0 trades, 2
\* remaining, no trades, P&L 0, can_trade) while the state keeps its old date.
C7_ReadsAreVirtual ==
    [][(now' = now /\ mode = "api" /\ pc = "api"
          /\ call'.op \in {"can_trade", "get_status"})
       => /\ current_state' = current_state
          /\ state_file' = state_file
          /\ (current_state.date # now /\ call'.op = "can_trade"
                => call'.ret = FirstAllowed)
          /\ (current_state.date # now /\ call'.op = "get_status"
                => call'.ret = EmptyDayStatus(now))]_vars

\* get_status answered for an empty day while the limiter still holds the
\* two trades and the P&L of the day before.
C7_Witness ==
    /\ mode = "api" /\ call.op = "get_status"
    /\ current_state.date < call.day
    /\ Len(current_state.trades_today) = 2
    /\ current_state.daily_pnl # 0
    /\ call.ret = EmptyDayStatus(call.day)

InCycle == mode = "simulation" /\ pc \in {"decide", "order", "balance"}

\* C2: in the simulation loop the limiter never holds more than
\* max_trades_per_day (2) trades for a date, whatever the cycles, the day
\* rollovers and the restarts; while every write of the record succeeded,
\* the record on disk and the orders actually placed on the limiter's date
\* stay within the cap too.
C2_CapInSimulationLoop ==
    mode = "simulation" =>
      /\ Len(current_state.trades_today) <= max_trades_per_day
      /\ (faults = 0 /\ state_file.kind = "text" /\ IsValidText(state_file.text)
            => Len(Deserialize(state_file.text).trades_today) <= max_trades_per_day)
      /\ (faults = 0 /\ ledger.day = current_state.date /\ pc # "boot"
            => ledger.n <= max_trades_per_day)

\* The loop was restarted on a day on which two orders had been placed, read
\* the two trades back and its next decision found the limit reached.
C2_Witness ==
    /\ mode = "simulation" /\ pc = "balance" /\ faults = 0
    /\ loaded = "none" /\ lp.in_position = FALSE /\ lp.entry_price = None
    /\ ledger = [day |-> now, n |-> 2]
    /\ current_state.date = now /\ Len(current_state.trades_today) = 2
    /\ current_state.trades_today[2].side = "BUY"
    /\ lp.permission = Some(LimitReached(2, now))

\* C3: in the simulation loop an order (buy or sell) is handed to the
\* exchange only in a cycle whose can_trade returned Allowed; a cycle whose
\* can_trade returned DailyLimitReached submits nothing.
C3_OrderGating ==
    (mode = "simulation" /\ (lp.order # None \/ lp.placed # None)) =>
      /\ lp.permission # None
      /\ lp.permission[1].tag = "Allowed"
      /\ lp.permission[1] \in {FirstAllowed, SecondAllowed}

\* A sell went through in a cycle whose permission was Allowed with one
\* trade remaining.
C3_Witness ==
    /\ mode = "simulation" /\ pc = "balance"
    /\ lp.placed = Some("Ok") /\ lp.order # None /\ lp.order[1].side = "SELL"
    /\ lp.permission = Some(SecondAllowed)

\* C8: every cycle that reaches the decision step, in the simulation loop
\* and in the live loop, has active targets.
C8_TargetsAtDecision ==
    (mode \in {"simulation", "live"} /\ pc = "decide") => lp.current_targets # None

\* C9: a recalculation asks the AI at most once, and when the health check
\* failed, the request failed or the timeout fired, the active targets of
\* the cycle are exactly the fallback targets of that cycle's snapshot and
\* the cycle goes on to its decision without another request.
C9_AiOnceElseFallback ==
    /\ (mode = "simulation" /\ pc = "ai") =>
         /\ lp.recalc.ai_requests = 1
         /\ lp.recalc.ai = "requested"
    /\ InCycle =>
         /\ lp.recalc.ai_requests <= 1
         /\ lp.recalc.ai # "requested"
         /\ (lp.recalc.ai \in {"unhealthy", "error", "timeout"}
               => /\ lp.recalc.kind = "fallback"
                  /\ lp.current_targets = Some(FallbackTargets(lp.market_context[1])))

\* The AI request of a recalculation made while in a position timed out and
\* the cycle decides on the fallback targets of its own snapshot.
C9_Witness ==
    /\ mode = "simulation" /\ pc = "decide"
    /\ lp.in_position
    /\ lp.recalc = [kind |-> "fallback", ai_requests |-> 1, ai |-> "timeout"]
    /\ lp.current_targets = Some(FallbackTargets(lp.market_context[1]))
    /\ lp.current_targets[1].buy_target_price # Some(D(97))

\* C10: a failed price fetch or a failed order submission makes the loop
\* skip the cycle and wait for the next one; it never ends the loop.
C10_FailureNeverHalts ==
    /\ (lp.skipped => pc \in {"fetch", "boot"})
    /\ (lp.placed = Some("Err") => pc # "halted")
    /\ (pc = "halted" => lp.halt \notin {"price", "order", "balance"})

Parsed == mode = "parser" /\ pc = "parsed"

HasSegment(segment) == \E i \in 1 .. Len(lp.segments) : lp.segments[i] = segment

\* C11: parse_ai_response returns targets for every response text, with the
\* stop loss and the take profit populated; it never fails and never aborts.
C11_ParserNeverFails ==
    Parsed =>
      /\ ~lp.parsed[1].panicked
      /\ lp.parsed[1].targets # None
      /\ lp.parsed[1].targets[1].stop_loss_price >= 0
      /\ lp.parsed[1].targets[1].take_profit_price >= 0

HasStopLossLabel ==
    HasSegment(SegStopLoss) \/ HasSegment(SegStopLossSpaced) \/ HasSegment(SegStopLossMalformed)

HasTakeProfitLabel == HasSegment(SegTakeProfit)

\* C12: the targets parsed from a response without a stop-loss label have
\* stop_loss_price = current_price x 0.95 exactly, and those parsed from a
\* response without a take-profit label have take_profit_price =
\* current_price x 1.10 exactly.
C12_ParserDefaulting ==
    (Parsed /\ ~lp.parsed[1].panicked) =>
      /\ (~HasStopLossLabel
            => lp.parsed[1].targets[1].stop_loss_price * 100 = lp.context.current_price * 95)
      /\ (~HasTakeProfitLabel
            => lp.parsed[1].targets[1].take_profit_price * 100 = lp.context.current_price * 110)

\* A response with a support line (a number, but neither label) parsed at a
\* price of 100 to a stop loss of 95 and a take profit of 110.
C12_Witness ==
    /\ Parsed /\ ~lp.parsed[1].panicked
    /\ HasSegment(SegSupport) /\ ~HasStopLossLabel /\ ~HasTakeProfitLabel
    /\ lp.context.current_price = D(100)
    /\ lp.parsed[1].targets[1].stop_loss_price = D(95)
    /\ lp.parsed[1].targets[1].take_profit_price = D(110)
    /\ lp.parsed[1].targets[1].support = Some(D(90))

ExpectedRecommendation ==
    IF HasSegment(SegStrongBuy) THEN "StrongBuy"
    ELSE IF HasSegment(SegStrongSell) THEN "StrongSell"
    ELSE IF HasSegment(SegRecommendBuy) THEN "Buy"
    ELSE IF HasSegment(SegRecommendSell) THEN "Sell"
    ELSE "Hold"

\* C13: the recommendation is StrongBuy when the text has a strong-buy
\* token anywhere, else StrongSell when it has a strong-sell token, else Buy
\* on a RECOMMENDATION: BUY label, else Sell on a RECOMMENDATION: SELL label,
\* else Hold; the returned targets carry that recommendation.
C13_RecommendationPriority ==
    Parsed =>
      /\ lp.parsed[1].recommendation = ExpectedRecommendation
      /\ (~lp.parsed[1].panicked
            => lp.parsed[1].targets[1].recommendation = ExpectedRecommendation)

\* A response with RECOMMENDATION: SELL followed by a STRONG_BUY token parsed
\* to StrongBuy.
C13_Witness ==
    /\ Parsed /\ ~lp.parsed[1].panicked
    /\ lp.segments = <<SegRecommendSell, SegStrongBuy>>
    /\ lp.parsed[1].targets[1].recommendation = "StrongBuy"

\* C14: support is the number of the standalone SUPPORT: line and absent
\* without one, whatever STRONG_SUPPORT line the text has and wherever it
\* stands; likewise resistance against STRONG_RESISTANCE.
C14_NoLabelCollision ==
    (Parsed /\ ~lp.parsed[1].panicked
       /\ \A i \in 1 .. Len(lp.segments) :
            lp.segments[i] \in {SegSupport, SegStrongSupport, SegResistance, SegStrongResistance}) =>
      /\ lp.parsed[1].targets[1].support =
            (IF HasSegment(SegSupport) THEN Some(D(90)) ELSE None)
      /\ lp.parsed[1].targets[1].resistance =
            (IF HasSegment(SegResistance) THEN Some(D(110)) ELSE None)

\* C15: the confidence of the targets, parsed or calculated, is within 0..100.
C15_ConfidenceInRange ==
    /\ (Parsed /\ ~lp.parsed[1].panicked) =>
         /\ lp.parsed[1].targets[1].confidence >= 0
         /\ lp.parsed[1].targets[1].confidence <= D(100)
    /\ (mode \in {"simulation", "live"} /\ lp.current_targets # None) =>
         /\ lp.current_targets[1].confidence >= 0
         /\ lp.current_targets[1].confidence <= D(100)

Calculated == mode = "calculator" /\ pc = "calculated"

WindowHigh == IF lp.context.high_48h # None THEN lp.context.high_48h[1] ELSE lp.context.high_24h

WindowLow == IF lp.context.low_48h # None THEN lp.context.low_48h[1] ELSE lp.context.low_24h

\* C16: with high and low taken from the 48h window where present and from
\* the 24h window otherwise, 3 x pivot = high + low + current, resistance =
\* 2 x pivot - low, strong_resistance = pivot + (high - low), support =
\* 2 x pivot - high, strong_support = pivot - (high - low); high 110, low 90,
\* current 100 give 100, 110, 120, 90, 80.
C16_PivotLevels ==
    Calculated =>
      LET t == lp.targets[1]
          pivot == t.pivot_point[1]
      IN /\ t.pivot_point # None /\ t.resistance # None /\ t.strong_resistance # None
         /\ t.support # None /\ t.strong_support # None
         /\ 3 * pivot = WindowHigh + WindowLow + lp.context.current_price
         /\ t.resistance[1] + WindowLow = 2 * pivot
         /\ t.strong_resistance[1] - pivot = WindowHigh - WindowLow
         /\ t.support[1] + WindowHigh = 2 * pivot
         /\ pivot - t.strong_support[1] = WindowHigh - WindowLow
         /\ (WindowHigh = D(110) /\ WindowLow = D(90) /\ lp.context.current_price = D(100)
               => /\ pivot = D(100)
                  /\ t.resistance = Some(D(110))
                  /\ t.strong_resistance = Some(D(120))
                  /\ t.support = Some(D(90))
                  /\ t.strong_support = Some(D(80)))

\* The levels of a snapshot whose 48h high (120) replaces the 24h high while
\* its low is the 24h low (90): pivot (120 + 90 + 100) / 3.
C16_Witness ==
    /\ Calculated
    /\ lp.context.high_48h = Some(D(120)) /\ lp.context.low_48h = None
    /\ lp.context.high_24h = D(110) /\ lp.context.low_24h = D(90)
    /\ lp.context.current_price = D(100)
    /\ 3 * lp.targets[1].pivot_point[1] = D(310)
    /\ lp.targets[1].strong_resistance[1] - lp.targets[1].pivot_point[1] = D(30)

Range24h == lp.context.high_24h - lp.context.low_24h

\* C17: for a price above 0 the stop loss is the price less half the 24h
\* range, but no nearer than 2% and no farther than 5%, and the take profit
\* is twice that distance above the price, so 0.95 c <= stop_loss <= 0.98 c
\* and 1.04 c <= take_profit <= 1.10 c; current 100, high 103, low 97 give
\* 97 and 106.
C17_StopLossClamp ==
    (Calculated /\ lp.context.current_price > 0) =>
      LET t == lp.targets[1]
          c == lp.context.current_price
          distance == c - t.stop_loss_price
      IN /\ 95 * c <= 100 * t.stop_loss_price /\ 100 * t.stop_loss_price <= 98 * c
         /\ 104 * c <= 100 * t.take_profit_price /\ 100 * t.take_profit_price <= 110 * c
         /\ t.take_profit_price - c = 2 * distance
         /\ (100 * Range24h <= 4 * c => 100 * distance = 2 * c)
         /\ (100 * Range24h >= 10 * c => 100 * distance = 5 * c)
         /\ (4 * c < 100 * Range24h /\ 100 * Range24h < 10 * c => 2 * distance = Range24h)
         /\ (c = D(100) /\ lp.context.high_24h = D(103) /\ lp.context.low_24h = D(97)
               => t.stop_loss_price = D(97) /\ t.take_profit_price = D(106))

\* A snapshot whose 24h range of 13% puts the stop loss at the 5% bound.
C17_Witness ==
    /\ Calculated
    /\ lp.context.current_price = D(100)
    /\ lp.context.high_24h = D(103) /\ lp.context.low_24h = D(90)
    /\ lp.targets[1].stop_loss_price = D(95)
    /\ lp.targets[1].take_profit_price = D(110)

\* C18: the buy target is the higher of support and 0.97 x current, the
\* sell target the lower of resistance and 1.05 x current; both are always
\* present, and for a price above 0 buy_target >= 0.97 c and sell_target <=
\* 1.05 c however extreme the high and the low are.
C18_BuySellBand ==
    Calculated =>
      LET t == lp.targets[1]
          c == lp.context.current_price
      IN /\ t.buy_target_price # None /\ t.sell_target_price # None
         /\ t.buy_target_price[1] >= t.support[1]
         /\ 100 * t.buy_target_price[1] >= 97 * c
         /\ (t.buy_target_price[1] = t.support[1] \/ 100 * t.buy_target_price[1] = 97 * c)
         /\ t.sell_target_price[1] <= t.resistance[1]
         /\ 100 * t.sell_target_price[1] <= 105 * c
         /\ (t.sell_target_price[1] = t.resistance[1] \/ 100 * t.sell_target_price[1] = 105 * c)

\* A snapshot with a high of 1000 and a low of 1, whose support is far below
\* and whose resistance is far above the price: the targets are 97 and 105.
C18_Witness ==
    /\ Calculated
    /\ lp.context.current_price = D(100)
    /\ lp.context.high_24h = D(1000) /\ lp.context.low_24h = D(1)
    /\ lp.context.high_48h = None /\ lp.context.low_48h = None
    /\ lp.targets[1].support[1] < 0
    /\ lp.targets[1].resistance[1] > D(700)
    /\ lp.targets[1].buy_target_price = Some(D(97))
    /\ lp.targets[1].sell_target_price = Some(D(105))

\* C19: the fallback confidence is |score| / (factors x 2) x 100, capped at
\* 90 and floored at 30, hence within 30..90 for every combination of
\* present and absent indicators.
C19_FallbackConfidence ==
    Calculated =>
      LET confidence == lp.targets[1].confidence
          score == Abs(determine_score(lp.context))
          max_score == 2 * determine_factors(lp.context)
      IN /\ confidence >= D(30) /\ confidence <= D(90)
         /\ max_score \in {2, 4, 6}
         /\ (100 * score >= 90 * max_score => confidence = D(90))
         /\ (100 * score <= 30 * max_score => confidence = D(30))
         /\ (30 * max_score < 100 * score /\ 100 * score < 90 * max_score
               => confidence * max_score = D(100) * score)

\* Snapshots at the floor (no indicator, flat day), in between (score 5 of
\* 6) and at the cap (score 1 of 2) are told apart by the witness of the
\* middle case: RSI 25, strongly bullish SMAs and a 6% day give 83.33.
C19_Witness ==
    /\ Calculated
    /\ lp.context.rsi = Some(D(25))
    /\ lp.context.sma_short = Some(D(103)) /\ lp.context.sma_long = Some(D(100))
    /\ lp.context.price_change_24h_percent = D(6)
    /\ lp.targets[1].confidence * 6 = D(500)
    /\ lp.targets[1].recommendation = "StrongBuy"

\* The trades of the day `today` that a status call would report for st.
TradesCounted(st, today) == get_status(st, today).trades_executed

\* C20: a failed write of the state record is never fatal. When the write of
\* record_trade fails, the call still returns Ok, the in-memory state is
\* dated today and holds the new trade as its last one, and can_trade and
\* get_status asked next in the same process count that trade; when the write
\* of update_pnl fails, the call still completes and the in-memory daily P&L
\* is the amount given, with the trades untouched.
C20_PersistenceFailureNotFatal ==
    [][/\ (mode = "api" /\ pc = "api" /\ call'.op = "record_trade"
             /\ faults' = faults + 1)
          => LET before == TradesCounted(current_state, now)
                 trades == current_state'.trades_today
             IN /\ call'.ret = "Ok"
                /\ current_state'.date = now
                /\ Len(trades) = before + 1
                /\ trades[Len(trades)].timestamp = now
                /\ trades[Len(trades)].is_first_trade = (before = 0)
                /\ TradesCounted(current_state', now) = before + 1
                /\ can_trade(current_state', now) = ExpectedPermission(before + 1, now)
                /\ saved'[1].text = Serialize(current_state')
       /\ (mode = "api" /\ pc = "api" /\ call'.op = "update_pnl"
             /\ faults' = faults + 1)
          => /\ call'.ret = "unit"
             /\ current_state'.daily_pnl \in PnlAmounts
             /\ current_state'.trades_today = current_state.trades_today
             /\ current_state'.date = current_state.date
             /\ saved'[1].text = Serialize(current_state')
             /\ can_trade(current_state', now) = can_trade(current_state, now)]_vars

\* The write of the second trade of the day was denied: the call returned Ok,
\* the record on disk still holds one trade, the in-memory state holds two
\* and can_trade reports the limit as reached.
C20_Witness ==
    /\ mode = "api" /\ call.op = "record_trade" /\ call.ret = "Ok"
    /\ saved # <<>> /\ saved[1].outcome = "denied"
    /\ current_state.date = now
    /\ Len(current_state.trades_today) = 2
    /\ state_file.kind = "text"
    /\ IsValidText(state_file.text)
    /\ Len(Deserialize(state_file.text).trades_today) = 1
    /\ can_trade(current_state, now) = LimitReached(2, now)

\* The step is an update_pnl call on a limiter (the clock leaves call alone).
UpdatePnlStep == mode = "api" /\ pc = "api" /\ now' = now /\ call'.op = "update_pnl"

\* The record on disk is a whole state record.
WholeRecord(file) == file.kind = "text" /\ IsValidText(file.text)

\* C21 as stated: after every update_pnl(a) the daily P&L is a in memory and
\* in the persisted record, and trades, flags and date are unchanged.
C21_PnlOverwrittenEverywhere ==
    [][UpdatePnlStep
       => /\ current_state'.daily_pnl \in PnlAmounts
          /\ current_state' = [current_state EXCEPT !.daily_pnl = current_state'.daily_pnl]
          /\ WholeRecord(state_file')
          /\ Deserialize(state_file'.text).daily_pnl = current_state'.daily_pnl]_vars

\* C21 amended: after every update_pnl(a) the in-memory daily P&L is a, one
\* of the amounts passed and not a sum with the previous value, and the trade
\* list, the executed-flags and the date are unchanged; when the write
\* succeeds the persisted record is a whole record that reads back as exactly
\* the in-memory state, and when it fails the stale or torn record is left
\* behind.
C21_PnlOverwritten ==
    [][UpdatePnlStep
       => /\ current_state'.daily_pnl \in PnlAmounts
          /\ current_state' = [current_state EXCEPT !.daily_pnl = current_state'.daily_pnl]
          /\ (faults' = faults
                => /\ WholeRecord(state_file')
                   /\ Deserialize(state_file'.text) = current_state')
          /\ (faults' # faults
                => state_file' \in {state_file, TextFile(SubSeq(saved'[1].text, 1, TornLen))})]_vars

\* A negative daily P&L was overwritten by a positive amount on a day with a
\* trade, and the record on disk reads back the new amount.
C21_Witness ==
    /\ mode = "api" /\ call.op = "update_pnl"
    /\ saved # <<>> /\ saved[1].outcome = "ok"
    /\ Len(current_state.trades_today) = 1
    /\ current_state.daily_pnl = 5
    /\ WholeRecord(state_file)
    /\ Deserialize(state_file.text).daily_pnl = 5
    /\ ledger.n = 1

\* Both callers asked can_trade on day `now` while one trade was recorded
\* and both have recorded since.
BothPassedAtOne ==
    /\ mode = "race"
    /\ \A w \in Workers : lp[w].pc = "recorded" /\ lp[w].day = now /\ lp[w].seen = 1

\* C22: the check and the record are separate calls. Whenever two callers
\* sharing one limiter both ask can_trade while one trade is recorded, both
\* are answered Allowed{not first, 1 remaining}, and once both have recorded
\* on that answer the day holds three trades, one more than the cap, which
\* can_trade reports as DailyLimitReached{3}.
C22_CheckThenActRace ==
    BothPassedAtOne
    => /\ \A w \in Workers : lp[w].permission = Some(SecondAllowed)
       /\ current_state.date = now
       /\ Len(current_state.trades_today) = 3
       /\ Len(current_state.trades_today) > max_trades_per_day
       /\ can_trade(current_state, now) = LimitReached(3, now)

\* The interleaving happened with every write succeeding: three trades are
\* in memory and in the record on disk.
C22_Witness ==
    /\ BothPassedAtOne
    /\ faults = 0
    /\ Len(current_state.trades_today) = 3
    /\ state_file = TextFile(Serialize(current_state))
    /\ call.op = "record_trade"

\* The step is a record_trade call (every such call moves the ledger).
RecordTradeStep == call'.op = "record_trade" /\ ledger' # ledger

\* The state holds the cap's worth of trades, or more, for `today`.
AtCap(st, today) == st.date = today /\ Len(st.trades_today) >= max_trades_per_day

\* C23: record_trade checks no cap. Called on a day that already holds
\* max_trades_per_day trades or more it returns Ok, keeps the recorded trades
\* and appends the new one, attempts to persist the longer list (which is on
\* disk when the write succeeds), and can_trade then answers
\* DailyLimitReached with the real count, max + 1.
C23_RecordTradeUncapped ==
    [][(mode = "race" /\ RecordTradeStep /\ AtCap(current_state, now))
       => LET before == current_state.trades_today
              after == current_state'.trades_today
          IN /\ call'.ret = "Ok"
             /\ Len(after) = Len(before) + 1
             /\ Len(after) > max_trades_per_day
             /\ SubSeq(after, 1, Len(before)) = before
             /\ after[Len(after)].is_first_trade = FALSE
             /\ saved' # <<>> /\ saved'[1].text = Serialize(current_state')
             /\ (saved'[1].outcome = "ok" => state_file' = TextFile(Serialize(current_state')))
             /\ can_trade(current_state', now) = LimitReached(Len(after), now)]_vars

\* A third trade was recorded on a day of two and written to disk; the
\* record reads back three trades, the first of them flagged as first.
C23_Witness ==
    /\ mode = "race" /\ call.op = "record_trade" /\ call.ret = "Ok"
    /\ saved # <<>> /\ saved[1].outcome = "ok"
    /\ WholeRecord(state_file)
    /\ Len(Deserialize(state_file.text).trades_today) = max_trades_per_day + 1
    /\ Deserialize(state_file.text).trades_today[1].is_first_trade
    /\ ~Deserialize(state_file.text).trades_today[3].is_first_trade
    /\ can_trade(current_state, now) = LimitReached(3, now)

\* The step is execute_buy / execute_sell of the simulation loop.
OrderStep == mode = "simulation" /\ pc = "order" /\ lp'.placed # None

\* C24: one TradeRecord per executed trade. An order the exchange accepted
\* is recorded in the same step of the cycle, after it went through: the
\* day's list grows by exactly one record, which carries the order's side,
\* price and quantity. When the submission fails nothing is appended and the
\* limiter state and its record on disk are unchanged. No other step of the
\* loop appends a record.
C24_OneRecordPerOrder ==
    [][/\ (OrderStep /\ lp'.placed = Some("Ok"))
          => LET order == lp.order[1]
                 before == TradesCounted(current_state, now)
                 trades == current_state'.trades_today
             IN /\ current_state'.date = now
                /\ Len(trades) = before + 1
                /\ (before > 0 => SubSeq(trades, 1, before) = current_state.trades_today)
                /\ trades[before + 1].side = order.side
                /\ trades[before + 1].price = order.price
                /\ trades[before + 1].quantity = order.qty
                /\ trades[before + 1].timestamp = now
                /\ ledger' = Placed(ledger, now)
                /\ pc' = "balance"
       /\ (OrderStep /\ lp'.placed # Some("Ok"))
          => /\ current_state' = current_state
             /\ state_file' = state_file
             /\ ledger' = ledger
             /\ pc' = "halted"
       /\ (mode = "simulation" /\ ~OrderStep /\ pc # "boot" /\ pc' # "boot")
          => /\ current_state' = current_state
             /\ ledger' = ledger]_vars

\* A buy was rejected by the exchange on a day with one recorded trade: the
\* loop halted and the limiter still holds that one trade, as does the
\* record on disk.
C24_Witness ==
    /\ mode = "simulation" /\ pc = "halted" /\ lp.halt = "order"
    /\ lp.placed = Some("Err") /\ lp.order # None /\ lp.order[1].side = "BUY"
    /\ current_state.date = now
    /\ Len(current_state.trades_today) = 1
    /\ ledger = [day |-> now, n |-> 1]
    /\ state_file = TextFile(Serialize(current_state))

\* The stop-loss or the take-profit of the current targets is hit by the
\* cycle's price while a position is open.
ExitTriggered ==
    /\ lp.in_position /\ lp.current_targets # None
    /\ \/ lp.current_price <= lp.current_targets[1].stop_loss_price
       \/ lp.current_price >= lp.current_targets[1].take_profit_price

\* The step is the trading logic of a simulation cycle.
DecideStep == mode = "simulation" /\ pc = "decide" /\ pc' \in {"order", "balance"}

\* C25: in the simulation loop, a stop-loss or take-profit that fires in a
\* cycle whose can_trade returned DailyLimitReached submits no sell and
\* leaves the position open with its quantity; and while a position is
\* open on a day whose limit is reached, every step that keeps the date
\* either keeps the position, the quantity, the reached limit and the
\* count of accepted orders, or is the end of the process, which forgets
\* the position: no sell of that position before the date changes.
C25_BlockedExitKeepsPosition ==
    [][/\ (DecideStep /\ ExitTriggered
             /\ can_trade(current_state, now).tag = "DailyLimitReached")
          => /\ lp'.permission = Some(can_trade(current_state, now))
             /\ lp'.order = None /\ pc' = "balance"
             /\ lp'.in_position /\ lp'.position_qty = lp.position_qty
             /\ current_state' = current_state /\ ledger' = ledger
       /\ (mode = "simulation" /\ lp.in_position /\ AtCap(current_state, now) /\ now' = now)
          => \/ /\ lp'.in_position /\ lp'.position_qty = lp.position_qty
                /\ AtCap(current_state', now)
                /\ ledger' = ledger
                /\ lp'.placed \in {lp.placed, None}
             \/ pc' = "boot" /\ ~lp'.in_position /\ lp'.position_qty = 0]_vars

\* A cycle found the stop-loss hit with a position open and two trades
\* recorded today: nothing was ordered and the position is still open.
C25_Witness ==
    /\ mode = "simulation" /\ pc = "balance"
    /\ ExitTriggered
    /\ lp.current_price <= lp.current_targets[1].stop_loss_price
    /\ lp.permission = Some(LimitReached(2, now))
    /\ lp.order = None /\ lp.placed = None
    /\ lp.position_qty > 0
    /\ AtCap(current_state, now)

\* C26: for every fallback result with a price above 0 the stop-loss price
\* is strictly below the buy target, so that a buy taken at or below the buy
\* target does not already meet the stop-loss exit of the same targets.
C26_StopLossBelowBuyTarget ==
    (Calculated /\ lp.context.current_price > 0)
    => /\ lp.targets[1].buy_target_price # None
       /\ lp.targets[1].stop_loss_price < lp.targets[1].buy_target_price[1]

\* C27: whenever the limiter status handed to the reporter says that
\* trading is not allowed, the next trading day handed over with it is the
\* day after the state's date, the value can_trade returns in
\* DailyLimitReached.next_trading_day.
C27_NextTradingDayIsTomorrow ==
    (mode \in {"simulation", "live"} /\ lp.trade_limits # None
        /\ ~lp.trade_limits[1].can_trade)
    => /\ lp.trade_limits[1].next_trading_day = Some(current_state.date + 1)
       /\ lp.trade_limits[1].next_trading_day =
            Some(can_trade(current_state, current_state.date).next_trading_day)

\* The part of the fallback score that the moving averages of ctx account
\* for, and the factors they add.
SmaContribution(ctx) ==
    determine_score(ctx) - determine_score([ctx EXCEPT !.sma_short = None, !.sma_long = None])

SmaFactors(ctx) ==
    determine_factors(ctx) - determine_factors([ctx EXCEPT !.sma_short = None, !.sma_long = None])

\* C28: with both averages present the SMA contribution to the fallback
\* score is +1 if short > long (+2 if short > long x 1.02), -1 if short <
\* long (-2 if short < long x 0.98) and 0 when short equals long; with either
\* average absent it is 0 and no factor is counted.
C28_SmaContribution ==
    Calculated =>
      LET ctx == lp.context IN
      IF ctx.sma_short = None \/ ctx.sma_long = None
      THEN SmaContribution(ctx) = 0 /\ SmaFactors(ctx) = 0
      ELSE LET short == ctx.sma_short[1]
               long == ctx.sma_long[1]
           IN /\ SmaFactors(ctx) = 1
              /\ SmaContribution(ctx) =
                   (CASE 100 * short > 102 * long -> 2
                      [] short > long /\ 100 * short <= 102 * long -> 1
                      [] short = long -> 0
                      [] short < long /\ 100 * short >= 98 * long -> 0 - 1
                      [] OTHER -> 0 - 2)

\* The part of the fallback score that the RSI of ctx accounts for, and the
\* factors it adds.
RsiContribution(ctx) == determine_score(ctx) - determine_score([ctx EXCEPT !.rsi = None])

RsiFactors(ctx) == determine_factors(ctx) - determine_factors([ctx EXCEPT !.rsi = None])

\* C29: a present RSI contributes +2 below 30, +1 from 30 to 39, -2 above
\* 70, -1 from 60 to 70 and 0 for every other value, and counts as one
\* factor; an absent RSI contributes 0 and counts as no factor.
C29_RsiContribution ==
    Calculated =>
      LET ctx == lp.context IN
      IF ctx.rsi = None
      THEN RsiContribution(ctx) = 0 /\ RsiFactors(ctx) = 0
      ELSE LET rsi == ctx.rsi[1] IN
           /\ RsiFactors(ctx) = 1
           /\ RsiContribution(ctx) =
                (CASE rsi < D(30) -> 2
                   [] D(30) <= rsi /\ rsi <= D(39) -> 1
                   [] rsi > D(70) -> 0 - 2
                   [] D(60) <= rsi /\ rsi <= D(70) -> 0 - 1
                   [] OTHER -> 0)

\* C30: in every state of a limiter driven by record_trade, update_pnl, day
\* rollovers and reloads of its own record, first_trade_executed is true iff
\* the state holds at least one trade, second_trade_executed iff it holds at
\* least two, and exactly the first record of trades_today has
\* is_first_trade = true.
C30_FlagsMatchTrades ==
    mode = "api" =>
      LET trades == current_state.trades_today IN
      /\ current_state.first_trade_executed = (Len(trades) >= 1)
      /\ current_state.second_trade_executed = (Len(trades) >= 2)
      /\ \A i \in 1 .. Len(trades) : trades[i].is_first_trade = (i = 1)

\* The first trade of a new day was recorded on a state that still held the
\* previous day's date: it is flagged as first and only the first flag is
\* set.
C30_Witness ==
    /\ mode = "api" /\ call.op = "record_trade" /\ call.stale /\ call.day = now
    /\ now > 1 /\ current_state.date = now
    /\ Len(current_state.trades_today) = 1
    /\ current_state.trades_today[1].is_first_trade
    /\ current_state.first_trade_executed /\ ~current_state.second_trade_executed
    /\ current_state.daily_pnl = 0

====
